---- MODULE Spec2Model ----
(***************************************************************************)
(* Model of the portfolio valuation engine of src/src/valuation.py:        *)
(* order-time parsing, NAV confirmation dates, NAV-based share             *)
(* reconstruction, index-tracking estimation, the per-fund fallback of     *)
(* calculate_portfolio_valuation and the in-process history caches.        *)
(*                                                                         *)
(* Numbers.  Python floats are modelled as exact rationals <<n, d>> in     *)
(* lowest terms with d > 0; round(x, k) is modelled as rounding to k       *)
(* decimals (ties to even).  Dates are day numbers 1..MaxDay, a datetime   *)
(* is a pair <<date, hour>>.  None and the empty DataFrame are <<>>.       *)
(***************************************************************************)
EXTENDS Integers, Sequences, FiniteSets, TLC

None == <<>>

\* ------------------------------------------------------------------ bounds
MaxDay == 2          \* calendar days 1..MaxDay
MaxTx == 2           \* buy transactions per fund position

CutoffHour == 15     \* valuation.py:218  order_hour < 15

Days == 1..MaxDay
Hours == {14, 15}                 \* hours of day an order string may carry
NavValues == {0, 100, 110}        \* NAV feed values, in hundredths
CurrentNavs == {-1, 0, 110}       \* get_fund_current_nav()['nav'] in hundredths; -1: None
Amounts == {0, 1000}              \* transaction amounts

\* --------------------------------------------------------------- rationals
RECURSIVE Gcd(_, _)
Gcd(a, b) == IF b = 0 THEN a ELSE Gcd(b, a % b)

Abs(x) == IF x < 0 THEN -x ELSE x

\* n/d in lowest terms, d > 0
Rat(n, d) ==
    LET s == IF d < 0 THEN -1 ELSE 1
        g == Gcd(Abs(n), Abs(d))
    IN  <<(s * n) \div g, (s * d) \div g>>

Zero == <<0, 1>>
FromInt(k) == <<k, 1>>
RAdd(x, y) == Rat(x[1] * y[2] + y[1] * x[2], x[2] * y[2])
RSub(x, y) == Rat(x[1] * y[2] - y[1] * x[2], x[2] * y[2])
RMul(x, y) == Rat(x[1] * y[1], x[2] * y[2])
RDiv(x, y) == Rat(x[1] * y[2], x[2] * y[1])
RLeq(x, y) == x[1] * y[2] <= y[1] * x[2]
RLt(x, y) == x[1] * y[2] < y[1] * x[2]
RPos(x) == x[1] > 0

Pow10(k) == IF k = 1 THEN 10 ELSE IF k = 2 THEN 100 ELSE IF k = 4 THEN 10000 ELSE 1

\* Python round(x, k): nearest multiple of 10^-k, ties to even
Round(x, k) ==
    LET n == x[1] * Pow10(k)
        d == x[2]
        q == n \div d
        r == n - q * d
        up == \/ 2 * r > d
              \/ 2 * r = d /\ q % 2 = 1
    IN  Rat(IF up THEN q + 1 ELSE q, Pow10(k))

\* ------------------------------------------------------------- order times
DateTime(date, hour) == <<date, hour>>
DateOf(t) == t[1]
HourOf(t) == t[2]

\* An order-time string: the separator of its date part, the day it names and
\* the time of day it carries ("none": date only, "HM": ' HH:MM',
\* "HMS": ' HH:MM:SS', "garbage": not a date at all, e.g. '').
Garbage == [sep |-> "-", date |-> 0, tod |-> "garbage", hour |-> 0]

DateOnlyStrings == [sep : {"-", "/"}, date : Days, tod : {"none"}, hour : {0}]
TimedStrings == [sep : {"-", "/"}, date : Days, tod : {"HM", "HMS"}, hour : Hours]
OrderStrings == {Garbage} \cup DateOnlyStrings \cup TimedStrings

\* parse_order_date: strptime of the first whitespace-separated field
parse_order_date(order_time_str) ==
    IF order_time_str.tod = "garbage"
    THEN None
    ELSE DateTime(order_time_str.date, 0)

\* parse_order_datetime: '%Y/%m/%d %H:%M' when the string holds a '/',
\* '%Y-%m-%d %H:%M:%S' otherwise; any failure falls back to the date alone
parse_order_datetime(order_time_str) ==
    IF order_time_str.sep = "/" /\ order_time_str.tod # "garbage"
    THEN IF order_time_str.tod = "HM"
         THEN DateTime(order_time_str.date, order_time_str.hour)
         ELSE parse_order_date(order_time_str)
    ELSE IF order_time_str.tod = "HMS"
         THEN DateTime(order_time_str.date, order_time_str.hour)
         ELSE parse_order_date(order_time_str)

\* -------------------------------------------------------------- NAV series
\* A NAV DataFrame: rows [date, nav] ascending by date, dates unique.
RECURSIVE SortedRows(_, _)
SortedRows(S, f) ==
    IF S = {} THEN <<>>
    ELSE LET m == CHOOSE x \in S : \A y \in S : x <= y
         IN  <<[date |-> m, nav |-> f[m]]>> \o SortedRows(S \ {m}, f)

SeriesOver(days, values) ==
    UNION {{SortedRows(S, f) : f \in [S -> values]} : S \in SUBSET days}

NavSeries == SeriesOver(Days, NavValues)

Dates(df) == {df[k].date : k \in 1..Len(df)}

NavAt(df, d) == LET k == CHOOSE j \in 1..Len(df) : df[j].date = d IN df[k].nav

\* get_nav_on_date: the NAV of the latest row at or before target_date, else
\* of the earliest row, else None
get_nav_on_date(nav_df, target_date) ==
    IF nav_df = <<>> THEN None
    ELSE LET before == {d \in Dates(nav_df) : d <= DateOf(target_date)}
         IN  IF before # {}
             THEN Rat(NavAt(nav_df, CHOOSE d \in before : \A e \in before : e <= d), 100)
             ELSE Rat(nav_df[1].nav, 100)

\* mutant: an order placed in the hour of the cutoff still gets its own day
ConfirmsSameDayLate(is_trading_day, order_hour) ==
    is_trading_day /\ order_hour <= CutoffHour

\* line 218: a trading-day order before the cutoff is confirmed the same day
ConfirmsSameDay(is_trading_day, order_hour) ==
    is_trading_day /\ order_hour < CutoffHour

\* get_nav_confirm_date: the order's own day when it is a trading day and the
\* order was placed before 15:00, else the next trading day, else None
get_nav_confirm_date(order_time, nav_df) ==
    LET order_date == DateOf(order_time)
        order_hour == HourOf(order_time)
        trading_days == Dates(nav_df)
        is_trading_day == order_date \in trading_days
        future_days == {d \in trading_days : d > order_date}
    IN  IF ConfirmsSameDay(is_trading_day, order_hour)
        THEN DateTime(order_date, 0)
        ELSE IF future_days # {}
             THEN DateTime(CHOOSE d \in future_days : \A e \in future_days : d <= e, 0)
             ELSE None

\* ---------------------------------------------------------- history caches
Today == MaxDay                   \* datetime.now(), as a day number
DefaultDays == 60                 \* valuation.py:22  days: int = 60

\* What a provider call does: it raises, or answers with rows (maybe none)
Raise == [raised |-> TRUE, rows |-> <<>>]
Answer(rows) == [raised |-> FALSE, rows |-> rows]

\* rows of the trailing window: df['date'] >= now - timedelta(days), now being
\* later than midnight
NavWindow(df, days) == SelectSeq(df, LAMBDA row : row.date > Today - days)

\* mutant: the cache is never looked up
CacheHitNever(cache, cache_key) == FALSE

\* lines 28, 107, 135: if cache_key in the cache
CacheHit(cache, cache_key) == cache_key \in DOMAIN cache

\* mutant: whatever the provider answers without raising is kept
UsableUnlessRaised(raised, rows) == ~raised

\* lines 33, 114, 142: the call did not raise and df is not None and not df.empty
Usable(raised, rows) == ~raised /\ rows # <<>>

\* get_fund_nav_history(fund_code, days), given what the provider would answer
\* (fetched: Raise or Answer(its full series)): the returned frame and the
\* cache after
get_fund_nav_history(cache, fund_code, days, fetched) ==
    LET cache_key == <<"nav", fund_code>>
    IN  IF CacheHit(cache, cache_key)
        THEN [ret |-> cache[cache_key], cache |-> cache, invoked |-> FALSE,
              key |-> cache_key]
        ELSE IF Usable(fetched.raised, fetched.rows)
             THEN LET df == NavWindow(fetched.rows, days)
                  IN  [ret |-> df, cache |-> (cache_key :> df) @@ cache,
                       invoked |-> TRUE, key |-> cache_key]
             ELSE [ret |-> <<>>, cache |-> cache, invoked |-> TRUE, key |-> cache_key]

\* index rows the provider answers for start_date = now - days .. today
AShareWindow(rows, days) == SelectSeq(rows, LAMBDA row : row.date >= Today - days)

\* index rows the provider answers for period = '<days>d'
UsWindow(rows, days) == SelectSeq(rows, LAMBDA row : row.date > Today - days)

\* df[['date', 'close']] or df[['date', 'close', 'amount']]
Columns(rows, include_volume) ==
    IF include_volume THEN rows
    ELSE [k \in 1..Len(rows) |-> [date |-> rows[k].date, close |-> rows[k].close]]

\* get_a_share_index_history(index_code, days, include_volume)
get_a_share_index_history(cache, index_code, days, include_volume, fetched) ==
    LET cache_key == <<"a", index_code, include_volume>>
        rows == AShareWindow(fetched.rows, days)
    IN  IF CacheHit(cache, cache_key)
        THEN [ret |-> cache[cache_key], cache |-> cache, invoked |-> FALSE,
              key |-> cache_key]
        ELSE IF Usable(fetched.raised, rows)
             THEN LET df == Columns(rows, include_volume)
                  IN  [ret |-> df, cache |-> (cache_key :> df) @@ cache,
                       invoked |-> TRUE, key |-> cache_key]
             ELSE [ret |-> <<>>, cache |-> cache, invoked |-> TRUE, key |-> cache_key]

\* get_us_index_history(index_code, days)
get_us_index_history(cache, index_code, days, fetched) ==
    LET cache_key == <<"us", index_code>>
        rows == UsWindow(fetched.rows, days)
    IN  IF CacheHit(cache, cache_key)
        THEN [ret |-> cache[cache_key], cache |-> cache, invoked |-> FALSE,
              key |-> cache_key]
        ELSE IF Usable(fetched.raised, rows)
             THEN LET df == Columns(rows, FALSE)
                  IN  [ret |-> df, cache |-> (cache_key :> df) @@ cache,
                       invoked |-> TRUE, key |-> cache_key]
             ELSE [ret |-> <<>>, cache |-> cache, invoked |-> TRUE, key |-> cache_key]

\* get_index_history(index_code, market): both getters with their default days
get_index_history(cache, index_code, market, fetched) ==
    IF market = "us"
    THEN get_us_index_history(cache, index_code, DefaultDays, fetched)
    ELSE get_a_share_index_history(cache, index_code, DefaultDays, FALSE, fetched)

CloseAt(df, d) == LET k == CHOOSE j \in 1..Len(df) : df[j].date = d IN df[k].close

\* get_index_value_on_date: the close of the latest row at or before
\* target_date, else of the earliest row, else None
get_index_value_on_date(index_df, target_date) ==
    IF index_df = <<>> THEN None
    ELSE LET before == {d \in Dates(index_df) : d <= DateOf(target_date)}
         IN  IF before # {}
             THEN FromInt(CloseAt(index_df, CHOOSE d \in before : \A e \in before : e <= d))
             ELSE FromInt(index_df[1].close)

\* ------------------------------------------------- NAV-based reconstruction
VARIABLES
    pc,                   \* where calculate_fund_valuation_by_nav stands
    fund_data,            \* its argument: [code, net_invested, buy_transactions]
    current_nav,          \* current.get('nav')
    nav_history,          \* get_fund_nav_history(fund_code)
    tx_idx,               \* position of the for loop in buy_transactions
    total_shares, total_cost, uncalculated_amount,
    tx_time, confirm_date, buy_nav,      \* locals of the loop body
    result,               \* the returned value (None or the result record)
    fund_nav_cache,       \* _fund_nav_cache
    index_history_cache,  \* _index_history_cache
    \* calculate_fund_valuation_by_index (it shares pc, fund_data, tx_idx, result)
    fund_index_mapping,   \* its argument: fund code -> mapping record
    index_history,        \* get_index_history(index_code, market)
    today_value,          \* get_index_value_on_date(index_history, now)
    total_market_value,   \* the accumulator of its loop
    \* calculate_portfolio_valuation (it shares pc, fund_index_mapping, the caches)
    portfolio,            \* the portfolio file: [found, funds]
    indices_data,         \* its argument: today's index quotes, or None
    provider,             \* what the data providers hold: [nav_now, nav_rows, index_rows]
    fund_i,               \* position of the for loop in funds_data
    results,              \* results
    total_invested,       \* total_invested
    portfolio_market_value,        \* its total_market_value
    total_today_estimated_profit, has_today_estimate,
    ret,                  \* what it returned
    \* a caller of the history getters
    calls,                \* how many calls it made
    last_call,            \* the last call: [fn, symbol, days, include_volume, key, invoked]
    last_ret,             \* what that call returned
    fetches,              \* cache key -> how often the provider was asked for it
    \* build_portfolio_from_alipay (it shares pc)
    records,              \* parse_alipay_bill(file_path)
    found_codes,          \* what search_fund_code finds: fund name -> code
    aggregated,           \* aggregate_transactions(records)
    alipay_portfolio,     \* its portfolio
    \* generate_smart_signal: its arguments and what it returned
    price, mas, rsi, volume_ratio, ma20_slope, days_below_ma10, market_breadth,
    smart_signal,
    \* generate_contextual_recommendation (it shares pc): its arguments, its
    \* locals and what it returned
    trend_data, valuation_data, position_data, sentiment_data,
    action, action_cn, confidence, context, reasoning, risk_warnings,
    position_advice,
    recommendation,
    \* calculate_percentile (it shares pc): its arguments and what it returned
    current, history, percentile,
    \* calculate_max_drawdown (it shares pc): its argument and what it returned
    nav_series, drawdown,
    \* analyze_portfolio_risk (it shares pc): its arguments, its locals and
    \* what it returned
    portfolio_data, risk_days,
    risk_i,               \* position of the for loop in funds
    risk_results,         \* results
    total_drawdown, total_volatility, valid_count, max_drawdown,
    max_drawdown_fund,    \* None, or <<name>>
    risk_report,
    \* generate_all_recommendations (it shares pc and portfolio_data): its
    \* trend_data, its locals and what it returned
    trend_list,
    holding_indices,      \* the dict, as the sequence of its items
    rec_i,                \* position of the for loop
    held_positions,       \* index code -> the position passed for it
    recommendations

navLocals == <<tx_idx, total_shares, total_cost, uncalculated_amount,
               tx_time, confirm_date, buy_nav>>
navVars == <<pc, fund_data, current_nav, nav_history, navLocals, result>>
cacheVars == <<fund_nav_cache, index_history_cache>>
idxVars == <<fund_index_mapping, index_history, today_value, total_market_value>>
pfVars == <<portfolio, indices_data, provider, fund_i, results, total_invested,
            portfolio_market_value, total_today_estimated_profit,
            has_today_estimate, ret>>
callVars == <<calls, last_call, last_ret, fetches>>
billVars == <<records, found_codes, aggregated, alipay_portfolio>>
sigVars == <<price, mas, rsi, volume_ratio, ma20_slope, days_below_ma10,
             market_breadth, smart_signal>>
recArgs == <<trend_data, valuation_data, position_data, sentiment_data>>
recLocals == <<action, action_cn, confidence, context, reasoning, risk_warnings,
               position_advice>>
recVars == <<recArgs, recLocals, recommendation>>
pctVars == <<current, history, percentile>>
ddVars == <<nav_series, drawdown>>
prVars == <<portfolio_data, risk_days, risk_i, risk_results, total_drawdown,
            total_volatility, valid_count, max_drawdown, max_drawdown_fund,
            risk_report>>
riskVars == <<ddVars, prVars>>
allVars == <<trend_list, holding_indices, rec_i, held_positions, recommendations>>
techVars == <<sigVars, recVars, pctVars, riskVars, allVars>>
notNav == <<idxVars, pfVars, callVars, billVars, techVars>>
notIdx == <<pfVars, callVars, billVars, techVars>>
vars == <<navVars, cacheVars, idxVars, pfVars, callVars, billVars, techVars>>

NoCode == ""
FundCode == "000001"

EmptyDict == [k \in {} |-> <<>>]

\* mutant: an unconfirmed amount is booked as cost too
NavUnconfirmedAsCost(acc, tx_amount) ==
    [acc EXCEPT !.uncalculated_amount = RAdd(@, FromInt(tx_amount)),
                !.total_cost = RAdd(@, FromInt(tx_amount))]

\* lines 286, 298, 310: an unconfirmed amount is carried at its own value
NavUnconfirmed(acc, tx_amount) ==
    [acc EXCEPT !.uncalculated_amount = RAdd(@, FromInt(tx_amount))]

\* The loop body of calculate_fund_valuation_by_nav on one transaction: the
\* accumulators and the body's locals after it.
NavTxStep(acc, tx, nav_df) ==
    LET tx_amount == tx.amount
        t == parse_order_datetime(tx.date)
        c == get_nav_confirm_date(t, nav_df)
        n == get_nav_on_date(nav_df, c)
        unconfirmed == NavUnconfirmed(acc, tx_amount)
    IN  IF tx_amount <= 0 THEN acc
        ELSE IF t = None
        THEN [unconfirmed EXCEPT !.tx_time = t]
        ELSE IF c = None
        THEN [unconfirmed EXCEPT !.tx_time = t, !.confirm_date = c]
        ELSE IF ~RPos(n)
        THEN [unconfirmed EXCEPT !.tx_time = t, !.confirm_date = c, !.buy_nav = n]
        ELSE [acc EXCEPT !.total_shares = RAdd(@, RDiv(FromInt(tx_amount), n)),
                         !.total_cost = RAdd(@, FromInt(tx_amount)),
                         !.tx_time = t, !.confirm_date = c, !.buy_nav = n]

\* mutant: no shares is enough to report unavailable
NavNothingValuedNoShares(shares, uncalculated) == ~RPos(shares)

\* line 332: nothing was reconstructed and nothing is carried unconfirmed
NavNothingValued(shares, uncalculated) == ~RPos(shares) /\ ~RPos(uncalculated)

\* mutant: the percentage is taken on the confirmed cost alone
NavProfitPctOnCost(profit, cost, uncalculated) ==
    IF RPos(cost) THEN RMul(RDiv(profit, cost), FromInt(100)) ELSE Zero

\* lines 343-344: the profit percentage on everything paid in
NavProfitPct(profit, cost, uncalculated) ==
    LET total_actual_cost == RAdd(cost, uncalculated)
    IN  IF RPos(total_actual_cost)
        THEN RMul(RDiv(profit, total_actual_cost), FromInt(100))
        ELSE Zero

\* What calculate_fund_valuation_by_nav returns once the loop is over.
NavFinish(fund, cur, acc) ==
    IF NavNothingValued(acc.total_shares, acc.uncalculated_amount)
    THEN None
    ELSE LET calculated_market_value ==
                 IF RPos(acc.total_shares) THEN RMul(acc.total_shares, cur) ELSE Zero
             market_value == RAdd(calculated_market_value, acc.uncalculated_amount)
             profit == RSub(calculated_market_value, acc.total_cost)
             profit_pct == NavProfitPct(profit, acc.total_cost, acc.uncalculated_amount)
             base == [code |-> fund.code,
                      total_invested |-> FromInt(fund.net_invested),
                      calc_method |-> "nav",
                      current_nav |-> cur,
                      total_shares |-> Round(acc.total_shares, 2),
                      avg_cost |-> IF RPos(acc.total_shares)
                                   THEN Round(RDiv(acc.total_cost, acc.total_shares), 4)
                                   ELSE Zero,
                      market_value |-> Round(market_value, 2),
                      profit |-> Round(profit, 2),
                      profit_pct |-> Round(profit_pct, 2)]
         IN  IF RPos(acc.uncalculated_amount)
             THEN base @@ [uncalculated_amount |-> acc.uncalculated_amount]
             ELSE base

Acc == [total_shares |-> total_shares, total_cost |-> total_cost,
        uncalculated_amount |-> uncalculated_amount,
        tx_time |-> tx_time, confirm_date |-> confirm_date, buy_nav |-> buy_nav]

NavReturnNone ==
    /\ result' = None
    /\ pc' = "done"

\* lines 248-249: no fund code
NavCheckCode ==
    /\ pc = "start"
    /\ IF fund_data.code = NoCode
       THEN NavReturnNone
       ELSE pc' = "current_nav" /\ UNCHANGED result
    /\ UNCHANGED <<fund_data, current_nav, nav_history, navLocals, cacheVars>>
    /\ UNCHANGED notNav

\* lines 252-255: the current NAV
NavGetCurrentNav ==
    /\ pc = "current_nav"
    /\ \E nav \in CurrentNavs :
          /\ current_nav' = IF nav < 0 THEN None ELSE Rat(nav, 100)
          /\ IF nav <= 0
             THEN NavReturnNone
             ELSE pc' = "nav_history" /\ UNCHANGED result
    /\ UNCHANGED <<fund_data, nav_history, navLocals, cacheVars>>
    /\ UNCHANGED notNav

\* lines 262-274: the NAV history, the transaction list, the accumulators
NavGetHistory ==
    /\ pc = "nav_history"
    /\ \E fetched \in {Raise} \cup {Answer(s) : s \in NavSeries} :
          LET got == get_fund_nav_history(fund_nav_cache, fund_data.code,
                                          DefaultDays, fetched)
          IN  /\ nav_history' = got.ret
              /\ fund_nav_cache' = got.cache
              /\ IF got.ret = <<>> \/ fund_data.buy_transactions = <<>>
                 THEN NavReturnNone
                 ELSE pc' = "loop" /\ UNCHANGED result
    /\ tx_idx' = 1
    /\ total_shares' = Zero
    /\ total_cost' = Zero
    /\ uncalculated_amount' = Zero
    /\ UNCHANGED <<fund_data, current_nav, tx_time, confirm_date, buy_nav,
                   index_history_cache>>
    /\ UNCHANGED notNav

\* lines 276-330: one turn of the loop
NavTx ==
    /\ pc = "loop"
    /\ tx_idx <= Len(fund_data.buy_transactions)
    /\ LET acc == NavTxStep(Acc, fund_data.buy_transactions[tx_idx], nav_history)
       IN  /\ total_shares' = acc.total_shares
           /\ total_cost' = acc.total_cost
           /\ uncalculated_amount' = acc.uncalculated_amount
           /\ tx_time' = acc.tx_time
           /\ confirm_date' = acc.confirm_date
           /\ buy_nav' = acc.buy_nav
    /\ tx_idx' = tx_idx + 1
    /\ UNCHANGED <<pc, fund_data, current_nav, nav_history, result, cacheVars>>
    /\ UNCHANGED notNav

\* lines 332-355: the result
NavReturn ==
    /\ pc = "loop"
    /\ tx_idx > Len(fund_data.buy_transactions)
    /\ result' = NavFinish(fund_data, current_nav, Acc)
    /\ pc' = "done"
    /\ UNCHANGED <<fund_data, current_nav, nav_history, navLocals, cacheVars>>
    /\ UNCHANGED notNav

NavNext == NavCheckCode \/ NavGetCurrentNav \/ NavGetHistory \/ NavTx \/ NavReturn

RECURSIVE SeqSum(_)
SeqSum(s) == IF s = <<>> THEN 0 ELSE s[1] + SeqSum(Tail(s))

TxListsOver(strings, n) ==
    UNION {[1..k -> [date : strings, amount : Amounts]] : k \in 0..n}

AmountsOf(txs) == [k \in 1..Len(txs) |-> txs[k].amount]

FundsOver(txlists) ==
    {[code |-> c, net_invested |-> SeqSum(AmountsOf(txs)), buy_transactions |-> txs] :
        c \in {NoCode, FundCode}, txs \in txlists}

\* the data providers, as far as one fund valuation sees them through its
\* own reads
NoProvider == [nav_now |-> EmptyDict, nav_rows |-> EmptyDict, index_rows |-> EmptyDict]

\* calculate_portfolio_valuation is not running
PfIdle ==
    /\ portfolio = [found |-> FALSE, funds |-> <<>>]
    /\ indices_data = None
    /\ provider = NoProvider
    /\ fund_i = 0
    /\ results = <<>>
    /\ total_invested = Zero
    /\ portfolio_market_value = Zero
    /\ total_today_estimated_profit = Zero
    /\ has_today_estimate = FALSE
    /\ ret = None

\* generate_smart_signal has not been called
SigIdle ==
    /\ price = None
    /\ mas = None
    /\ rsi = None
    /\ volume_ratio = None
    /\ ma20_slope = None
    /\ days_below_ma10 = 0
    /\ market_breadth = None
    /\ smart_signal = None

\* generate_contextual_recommendation has not been called
RecIdle ==
    /\ trend_data = None
    /\ valuation_data = None
    /\ position_data = None
    /\ sentiment_data = None
    /\ action = ""
    /\ action_cn = ""
    /\ confidence = 0
    /\ context = ""
    /\ reasoning = <<>>
    /\ risk_warnings = <<>>
    /\ position_advice = ""
    /\ recommendation = None

\* calculate_percentile has not been called
PctIdle ==
    /\ current = None
    /\ history = <<>>
    /\ percentile = None

\* calculate_max_drawdown has not been called
DdIdle ==
    /\ nav_series = <<>>
    /\ drawdown = None

\* analyze_portfolio_risk has not been called
PrIdle ==
    /\ portfolio_data = EmptyDict
    /\ risk_days = 0
    /\ risk_i = 0
    /\ risk_results = <<>>
    /\ total_drawdown = Zero
    /\ total_volatility = Zero
    /\ valid_count = 0
    /\ max_drawdown = Zero
    /\ max_drawdown_fund = None
    /\ risk_report = None

\* nothing of the risk analysis is running
RiskIdle == DdIdle /\ PrIdle

\* generate_all_recommendations has not been called
AllIdle ==
    /\ trend_list = <<>>
    /\ holding_indices = <<>>
    /\ rec_i = 0
    /\ held_positions = EmptyDict
    /\ recommendations = <<>>

\* nothing of the technical analysis is running
TechIdle == SigIdle /\ RecIdle /\ PctIdle /\ RiskIdle /\ AllIdle

\* build_portfolio_from_alipay has not been called
BillIdle ==
    /\ records = <<>>
    /\ found_codes = EmptyDict
    /\ aggregated = EmptyDict
    /\ alipay_portfolio = None

\* nobody has called a history getter
NoCall == [fn |-> "", symbol |-> "", days |-> 0, include_volume |-> FALSE,
           key |-> <<>>, invoked |-> FALSE]

CallIdle ==
    /\ calls = 0
    /\ last_call = NoCall
    /\ last_ret = <<>>
    /\ fetches = EmptyDict

\* calculate_fund_valuation_by_index is not running
IdxIdle ==
    /\ fund_index_mapping = EmptyDict
    /\ index_history = <<>>
    /\ today_value = None
    /\ total_market_value = Zero

NavInit(funds) ==
    /\ pc = "start"
    /\ fund_data \in funds
    /\ current_nav = None
    /\ nav_history = <<>>
    /\ tx_idx = 0
    /\ total_shares = Zero
    /\ total_cost = Zero
    /\ uncalculated_amount = Zero
    /\ tx_time = None
    /\ confirm_date = None
    /\ buy_nav = None
    /\ result = None
    /\ fund_nav_cache = EmptyDict
    /\ index_history_cache = EmptyDict
    /\ IdxIdle
    /\ PfIdle
    /\ CallIdle
    /\ BillIdle
    /\ TechIdle

\* calculate_fund_valuation_by_nav on a position of up to MaxTx transactions
\* whose order times carry seconds
NavStrings == {Garbage} \cup {s \in TimedStrings : s.sep = "-" /\ s.tod = "HMS"}
InitNav == NavInit(FundsOver(TxListsOver(NavStrings, MaxTx)))
SpecNav == InitNav /\ [][NavNext]_vars

\* calculate_fund_valuation_by_nav on a position of at most one transaction,
\* its order time in any of the shapes a bill or a hand-edited file can hold
InitOrder == NavInit(FundsOver(TxListsOver(OrderStrings, 1)))
SpecOrder == InitOrder /\ [][NavNext]_vars

\* ------------------------------------------------------------------------
\* Properties of the NAV-based reconstruction
\* ------------------------------------------------------------------------
Txs == fund_data.buy_transactions

MinOf(S) == CHOOSE d \in S : \A e \in S : d <= e

\* calculate_fund_valuation_by_nav ran its loop to the end and returned
LoopDone ==
    /\ pc = "done"
    /\ fund_data.code # NoCode
    /\ current_nav # None /\ RPos(current_nav)
    /\ nav_history # <<>>
    /\ Txs # <<>>

\* the single transaction of the position has been through the loop body
OneTxDone ==
    /\ pc = "loop"
    /\ Len(Txs) = 1
    /\ tx_idx = 2
    /\ Txs[1].amount > 0

\* C1: a buy whose order-time string carries a time of day is converted with
\* the NAV of its own day only when that day is in the NAV series and the
\* stated hour is before 15; otherwise with the NAV of the next later trading
\* day of the series.
C1_TimedOrderUsesCutoff ==
    (OneTxDone /\ Txs[1].date.tod \in {"HM", "HMS"}) =>
        LET s == Txs[1].date
            days == Dates(nav_history)
            own == s.date \in days /\ s.hour < 15
            later == {d \in days : d > s.date}
            day == IF own THEN s.date ELSE MinOf(later)
        IN  (own \/ later # {}) =>
               /\ confirm_date = DateTime(day, 0)
               /\ NavAt(nav_history, day) > 0 =>
                     total_shares = Rat(Txs[1].amount * 100, NavAt(nav_history, day))

ConfirmingNav(tx, nav_df) ==
    LET t == parse_order_datetime(tx.date)
        c == get_nav_confirm_date(t, nav_df)
        n == get_nav_on_date(nav_df, c)
    IN  IF t = None THEN None
        ELSE IF c = None THEN None
        ELSE IF RPos(n) THEN n ELSE None

IsConfirmed(tx, nav_df) == tx.amount > 0 /\ ConfirmingNav(tx, nav_df) # None
IsUnconfirmed(tx, nav_df) == tx.amount > 0 /\ ConfirmingNav(tx, nav_df) = None

RECURSIVE SumShares(_, _)
SumShares(txs, nav_df) ==
    IF txs = <<>> THEN Zero
    ELSE RAdd(IF IsConfirmed(txs[1], nav_df)
              THEN RDiv(FromInt(txs[1].amount), ConfirmingNav(txs[1], nav_df))
              ELSE Zero,
              SumShares(Tail(txs), nav_df))

RECURSIVE SumConfirmed(_, _)
SumConfirmed(txs, nav_df) ==
    IF txs = <<>> THEN Zero
    ELSE RAdd(IF IsConfirmed(txs[1], nav_df) THEN FromInt(txs[1].amount) ELSE Zero,
              SumConfirmed(Tail(txs), nav_df))

RECURSIVE SumUnconfirmed(_, _)
SumUnconfirmed(txs, nav_df) ==
    IF txs = <<>> THEN Zero
    ELSE RAdd(IF IsUnconfirmed(txs[1], nav_df) THEN FromInt(txs[1].amount) ELSE Zero,
              SumUnconfirmed(Tail(txs), nav_df))

\* the loop of calculate_fund_valuation_by_nav over a whole list
RECURSIVE NavFold(_, _, _)
NavFold(acc, txs, nav_df) ==
    IF txs = <<>> THEN acc
    ELSE NavFold(NavTxStep(acc, txs[1], nav_df), Tail(txs), nav_df)

Acc0 == [total_shares |-> Zero, total_cost |-> Zero, uncalculated_amount |-> Zero,
         tx_time |-> None, confirm_date |-> None, buy_nav |-> None]

\* C3: a buy with no confirming NAV adds exactly its amount to market_value,
\* nothing to total_shares or cost, and leaves profit unchanged: the result
\* equals the result for the list without the unconfirmed transactions, with
\* market_value raised by their amounts.
C3_BreakevenPassthrough ==
    LoopDone =>
        LET confirmed == SelectSeq(Txs, LAMBDA tx : ~IsUnconfirmed(tx, nav_history))
            unc == SumUnconfirmed(Txs, nav_history)
            without == NavFinish(fund_data, current_nav,
                                 NavFold(Acc0, confirmed, nav_history))
        IN  IF result = None
            THEN unc = Zero /\ without = None
            ELSE IF without = None
            THEN /\ result.market_value = unc
                 /\ result.profit = Zero
                 /\ result.total_shares = Zero
                 /\ result.avg_cost = Zero
            ELSE /\ result.market_value = RAdd(without.market_value, unc)
                 /\ result.profit = without.profit
                 /\ result.total_shares = without.total_shares
                 /\ result.avg_cost = without.avg_cost

\* C3 witness: a position with a confirmed and an unconfirmed buy was valued.
C3_Witness ==
    /\ LoopDone
    /\ result # None
    /\ RPos(result.total_shares)
    /\ RPos(SumUnconfirmed(Txs, nav_history))
    /\ result.profit # Zero

C5_UnavailableIff ==
    pc = "done" =>
        ((result = None) <=>
            \/ fund_data.code = NoCode
            \/ current_nav = None
            \/ ~RPos(current_nav)
            \/ nav_history = <<>>
            \/ Txs = <<>>
            \/ /\ SumShares(Txs, nav_history) = Zero
               /\ SumUnconfirmed(Txs, nav_history) = Zero)

\* C5 witness: every precondition held and the call still reported
\* unavailable, no transaction having a positive amount.
C5_Witness ==
    /\ LoopDone
    /\ result = None

\* ------------------------------------------------------------------------
\* Index-tracking estimation: calculate_fund_valuation_by_index
\* ------------------------------------------------------------------------
IndexValues == {0, 100, 120}      \* index closes

IndexRows(df) ==
    [k \in 1..Len(df) |-> [date |-> df[k].date, close |-> df[k].nav, amount |-> 1]]

\* what the index provider can hold for one index
IndexSeries == {IndexRows(df) : df \in SeriesOver(Days, IndexValues)}

AShareMap == [index_code |-> "000300", index_name |-> "CSI 300",
              tracking_ratio |-> Rat(95, 100), market |-> "a_share"]
UsMap == [index_code |-> "^NDX", index_name |-> "Nasdaq 100",
          tracking_ratio |-> Rat(1, 1), market |-> "us"]

\* lines 370-374
IndexBase(fund) ==
    [code |-> fund.code, total_invested |-> FromInt(fund.net_invested)]

\* lines 397-398
IndexMapped(fund, mapping) ==
    IndexBase(fund) @@ [tracking_index |-> mapping.index_name,
                        tracking_ratio |-> mapping.tracking_ratio]

\* mutant: a position that cannot be estimated is valued at nothing
IndexPassthroughZero(base, note) ==
    base @@ [market_value |-> Zero, profit |-> Zero, profit_pct |-> Zero,
             error |-> note]

\* lines 377-381, 386-390, 403-407, 412-416: the invested amount passes through
IndexPassthrough(base, note) ==
    base @@ [market_value |-> base.total_invested, profit |-> Zero,
             profit_pct |-> Zero, error |-> note]

\* lines 426-477: the loop body on one transaction, the accumulator after it
IndexTxStep(total, tx, index_df, today, tracking_ratio) ==
    LET tx_amount == tx.amount
        tx_date == parse_order_date(tx.date)
        buy_value == get_index_value_on_date(index_df, tx_date)
        index_change_pct == RDiv(RSub(today, buy_value), buy_value)
        fund_change_pct == RMul(index_change_pct, tracking_ratio)
        market_value == RMul(FromInt(tx_amount), RAdd(FromInt(1), fund_change_pct))
    IN  IF tx_amount <= 0 THEN total
        ELSE IF tx_date = None THEN RAdd(total, FromInt(tx_amount))
        ELSE IF buy_value = None \/ buy_value = Zero
        THEN RAdd(total, FromInt(tx_amount))
        ELSE RAdd(total, market_value)

\* lines 479-488: the summary
IndexFinish(base, total, today) ==
    LET invested == base.total_invested
        profit == RSub(total, invested)
        profit_pct == IF RPos(invested)
                      THEN RMul(RDiv(profit, invested), FromInt(100))
                      ELSE Zero
    IN  base @@ [index_today |-> today,
                 market_value |-> Round(total, 2),
                 profit |-> Round(profit, 2),
                 profit_pct |-> Round(profit_pct, 2)]

\* lines 366-398: the fund code and its mapping
IdxCheck ==
    /\ pc = "start"
    /\ IF fund_data.code = NoCode
       THEN /\ result' = IndexPassthrough(IndexBase(fund_data), "no fund code")
            /\ pc' = "done"
       ELSE IF fund_data.code \notin DOMAIN fund_index_mapping
       THEN /\ result' = IndexPassthrough(IndexBase(fund_data), "no tracking index")
            /\ pc' = "done"
       ELSE /\ pc' = "index_history"
            /\ UNCHANGED result
    /\ UNCHANGED <<fund_data, current_nav, nav_history, navLocals, cacheVars, idxVars>>
    /\ UNCHANGED notIdx

\* lines 400-424: the index history and today's value
IdxGetHistory ==
    /\ pc = "index_history"
    /\ \E fetched \in {Raise} \cup {Answer(rows) : rows \in IndexSeries} :
          LET mapping == fund_index_mapping[fund_data.code]
              got == get_index_history(index_history_cache, mapping.index_code,
                                       mapping.market, fetched)
              today == get_index_value_on_date(got.ret, DateTime(Today, 10))
          IN  /\ index_history' = got.ret
              /\ index_history_cache' = got.cache
              /\ IF got.ret = <<>>
                 THEN /\ result' = IndexPassthrough(IndexMapped(fund_data, mapping),
                                                    "no index history")
                      /\ pc' = "done"
                      /\ UNCHANGED today_value
                 ELSE IF today = None \/ today = Zero
                 THEN /\ result' = IndexPassthrough(IndexMapped(fund_data, mapping),
                                                    "no index value today")
                      /\ pc' = "done"
                      /\ today_value' = today
                 ELSE /\ pc' = "loop"
                      /\ today_value' = today
                      /\ UNCHANGED result
    /\ tx_idx' = 1
    /\ total_market_value' = Zero
    /\ UNCHANGED <<fund_data, current_nav, nav_history, total_shares, total_cost,
                   uncalculated_amount, tx_time, confirm_date, buy_nav,
                   fund_nav_cache, fund_index_mapping>>
    /\ UNCHANGED notIdx

\* lines 426-477: one turn of the loop
IdxTx ==
    /\ pc = "loop"
    /\ tx_idx <= Len(fund_data.buy_transactions)
    /\ total_market_value' =
          IndexTxStep(total_market_value, fund_data.buy_transactions[tx_idx],
                      index_history, today_value,
                      fund_index_mapping[fund_data.code].tracking_ratio)
    /\ tx_idx' = tx_idx + 1
    /\ UNCHANGED <<pc, fund_data, current_nav, nav_history, total_shares, total_cost,
                   uncalculated_amount, tx_time, confirm_date, buy_nav, result,
                   cacheVars, fund_index_mapping, index_history, today_value>>
    /\ UNCHANGED notIdx

\* lines 479-488: the result
IdxReturn ==
    /\ pc = "loop"
    /\ tx_idx > Len(fund_data.buy_transactions)
    /\ result' = IndexFinish(IndexMapped(fund_data, fund_index_mapping[fund_data.code]),
                             total_market_value, today_value)
    /\ pc' = "done"
    /\ UNCHANGED <<fund_data, current_nav, nav_history, navLocals, cacheVars, idxVars>>
    /\ UNCHANGED notIdx

IdxNext == IdxCheck \/ IdxGetHistory \/ IdxTx \/ IdxReturn

\* order times as calculate_fund_valuation_by_index reads them: a date or not
IndexStrings == {Garbage} \cup {s \in DateOnlyStrings : s.sep = "-"}

Redemptions == {0, 500}           \* what was redeemed from a position

\* positions whose net_invested is what was bought less what was redeemed
PositionsOf(c, txs) ==
    {[code |-> c, net_invested |-> SeqSum(AmountsOf(txs)) - r, buy_transactions |-> txs] :
        r \in {q \in Redemptions : q = 0 \/ q < SeqSum(AmountsOf(txs))}}

IdxFunds ==
    UNION {PositionsOf(c, txs) :
              c \in {NoCode, FundCode}, txs \in TxListsOver(IndexStrings, MaxTx)}

InitIdx ==
    /\ pc = "start"
    /\ fund_data \in IdxFunds
    /\ fund_index_mapping \in {EmptyDict, FundCode :> AShareMap, FundCode :> UsMap}
    /\ current_nav = None
    /\ nav_history = <<>>
    /\ tx_idx = 0
    /\ total_shares = Zero
    /\ total_cost = Zero
    /\ uncalculated_amount = Zero
    /\ tx_time = None
    /\ confirm_date = None
    /\ buy_nav = None
    /\ result = None
    /\ fund_nav_cache = EmptyDict
    /\ index_history_cache = EmptyDict
    /\ index_history = <<>>
    /\ today_value = None
    /\ total_market_value = Zero
    /\ PfIdle
    /\ CallIdle
    /\ BillIdle
    /\ TechIdle

SpecIdx == InitIdx /\ [][IdxNext]_vars

\* calculate_fund_valuation_by_index ran its loop to the end and returned
IdxLoopDone ==
    /\ pc = "done"
    /\ "error" \notin DOMAIN result

\* the estimate the index-tracking rule gives one transaction
EstimatedValue(tx, index_df, today, tracking_ratio) ==
    LET d == parse_order_date(tx.date)
        buy == get_index_value_on_date(index_df, d)
    IN  IF tx.amount <= 0 THEN Zero
        ELSE IF d = None THEN FromInt(tx.amount)
        ELSE IF buy = None \/ buy = Zero THEN FromInt(tx.amount)
        ELSE RMul(FromInt(tx.amount),
                  RAdd(FromInt(1),
                       RMul(RDiv(RSub(today, buy), buy), tracking_ratio)))

RECURSIVE SumEstimated(_, _, _, _)
SumEstimated(txs, index_df, today, tracking_ratio) ==
    IF txs = <<>> THEN Zero
    ELSE RAdd(EstimatedValue(txs[1], index_df, today, tracking_ratio),
              SumEstimated(Tail(txs), index_df, today, tracking_ratio))

RECURSIVE SumValued(_)
SumValued(txs) ==
    IF txs = <<>> THEN 0
    ELSE (IF txs[1].amount > 0 THEN txs[1].amount ELSE 0) + SumValued(Tail(txs))

\* The market value returned by the index method is the sum over the
\* transactions of amount * (1 + index_return * tracking_ratio), an
\* unresolvable transaction passing through at its amount (two decimals).
IdxMarketValueIsSum ==
    IdxLoopDone =>
        result.market_value =
            Round(SumEstimated(Txs, index_history, today_value,
                               fund_index_mapping[fund_data.code].tracking_ratio), 2)

\* C8: the index method's market_value is the sum of the per-transaction
\* estimates amount * (1 + index_return * tracking_ratio), and its profit is
\* that market value minus the sum of the transaction amounts that were
\* valued, so that a fund whose every transaction passes through at breakeven
\* has profit 0 and profit_pct 0.
C8_IndexProfitOnValuedAmounts ==
    IdxLoopDone =>
        LET est == SumEstimated(Txs, index_history, today_value,
                                fund_index_mapping[fund_data.code].tracking_ratio)
            valued == FromInt(SumValued(Txs))
        IN  /\ result.market_value = Round(est, 2)
            /\ result.profit = Round(RSub(est, valued), 2)
            /\ est = valued => (result.profit = Zero /\ result.profit_pct = Zero)

\* C9: when the fund code is missing, no mapping is configured, the index
\* history is empty or today's index value is unavailable, the result carries
\* market_value = the invested amount, profit 0, profit_pct 0 and an error
\* note, and a result is returned.
C9_PassthroughOnMissingData ==
    (/\ pc = "done"
     /\ \/ fund_data.code = NoCode
        \/ fund_data.code \notin DOMAIN fund_index_mapping
        \/ index_history = <<>>
        \/ today_value = None
        \/ today_value = Zero)
    => /\ result # None
       /\ "error" \in DOMAIN result
       /\ result.market_value = FromInt(fund_data.net_invested)
       /\ result.profit = Zero
       /\ result.profit_pct = Zero

\* C9 witness: a mapped fund with a positive amount invested whose index
\* history holds no usable value for today was passed through.
C9_Witness ==
    /\ pc = "done"
    /\ index_history # <<>>
    /\ today_value = Zero
    /\ fund_data.net_invested > 0
    /\ result.market_value = FromInt(fund_data.net_invested)

\* ------------------------------------------------------------------------
\* The portfolio engine: calculate_portfolio_valuation
\* ------------------------------------------------------------------------
MaxFunds == 2                     \* positions in the portfolio file

QdiiCode == "000002"
PfCodes == {FundCode, QdiiCode}
IndexCodes == {AShareMap.index_code, UsMap.index_code}
NoName == ""                      \* a name that .get() did not find

funds_data == portfolio.funds

\* get_fund_current_nav: the provider's NAV (below zero: none to be had)
get_fund_current_nav(prov, fund_code) ==
    LET nav == prov.nav_now[fund_code]
    IN  IF nav < 0 THEN None ELSE Rat(nav, 100)

\* calculate_fund_valuation_by_nav as one call: what it returns and the NAV
\* cache after
calculate_fund_valuation_by_nav(fund, cache, prov) ==
    LET cur == get_fund_current_nav(prov, fund.code)
        got == get_fund_nav_history(cache, fund.code, DefaultDays,
                                    prov.nav_rows[fund.code])
    IN  IF fund.code = NoCode THEN [ret |-> None, cache |-> cache]
        ELSE IF cur = None \/ ~RPos(cur) THEN [ret |-> None, cache |-> cache]
        ELSE IF got.ret = <<>> THEN [ret |-> None, cache |-> got.cache]
        ELSE IF fund.buy_transactions = <<>> THEN [ret |-> None, cache |-> got.cache]
        ELSE [ret |-> NavFinish(fund, cur, NavFold(Acc0, fund.buy_transactions, got.ret)),
              cache |-> got.cache]

\* the loop of calculate_fund_valuation_by_index over a whole list
RECURSIVE IndexFold(_, _, _, _, _)
IndexFold(total, txs, index_df, today, tracking_ratio) ==
    IF txs = <<>> THEN total
    ELSE IndexFold(IndexTxStep(total, txs[1], index_df, today, tracking_ratio),
                   Tail(txs), index_df, today, tracking_ratio)

\* calculate_fund_valuation_by_index as one call: what it returns and the
\* index cache after
calculate_fund_valuation_by_index(fund, mappings, cache, prov) ==
    LET mapping == mappings[fund.code]
        got == get_index_history(cache, mapping.index_code, mapping.market,
                                 prov.index_rows[mapping.index_code])
        today == get_index_value_on_date(got.ret, DateTime(Today, 10))
        base == IndexMapped(fund, mapping)
    IN  IF fund.code = NoCode
        THEN [ret |-> IndexPassthrough(IndexBase(fund), "no fund code"), cache |-> cache]
        ELSE IF fund.code \notin DOMAIN mappings
        THEN [ret |-> IndexPassthrough(IndexBase(fund), "no tracking index"),
              cache |-> cache]
        ELSE IF got.ret = <<>>
        THEN [ret |-> IndexPassthrough(base, "no index history"), cache |-> got.cache]
        ELSE IF today = None \/ today = Zero
        THEN [ret |-> IndexPassthrough(base, "no index value today"),
              cache |-> got.cache]
        ELSE [ret |-> IndexFinish(base,
                                  IndexFold(Zero, fund.buy_transactions, got.ret,
                                            today, mapping.tracking_ratio),
                                  today),
              cache |-> got.cache]

\* estimate_today_change: the index's change today times the tracking ratio;
\* quotes holds, per market, the change of each quoted index
estimate_today_change(fund_code, quotes, mappings) ==
    IF fund_code \notin DOMAIN mappings
    THEN [estimated_change_pct |-> None, index_name |-> NoName]
    ELSE LET mapping == mappings[fund_code]
             index_code == mapping.index_code
             listed == IF mapping.market = "us" THEN quotes.us_stock ELSE quotes.a_share
             direct == IF index_code \in DOMAIN listed THEN listed[index_code] ELSE None
             approximated == /\ mapping.market = "us"
                             /\ direct = None
                             /\ index_code = "^NDX"
                             /\ "^IXIC" \in DOMAIN quotes.us_stock
             index_change_pct == IF approximated THEN quotes.us_stock["^IXIC"] ELSE direct
             index_name == IF approximated THEN "Nasdaq (approx.)" ELSE mapping.index_name
         IN  IF index_change_pct = None
             THEN [estimated_change_pct |-> None, index_name |-> index_name]
             ELSE [estimated_change_pct |->
                       Round(RMul(index_change_pct, mapping.tracking_ratio), 2),
                   index_name |-> index_name]

\* mutant: every fund is taken for a QDII fund
IsQdiiAlways(mappings, fund_code) == TRUE

\* line 614: a fund mapped to a US index (a QDII fund)
IsQdii(mappings, fund_code) ==
    fund_code \in DOMAIN mappings /\ mappings[fund_code].market = "us"

\* mutant: the NAV method's answer is taken as it comes
NavUnavailableNever(valuation) == FALSE

\* line 622: the NAV method reported unavailable
NavUnavailable(valuation) == valuation = None

\* lines 612-623: the valuation of one position and the caches after
ValueFund(fund, mappings, nav_cache, index_cache, prov) ==
    LET by_nav == calculate_fund_valuation_by_nav(fund, nav_cache, prov)
        by_index == calculate_fund_valuation_by_index(fund, mappings, index_cache, prov)
    IN  IF IsQdii(mappings, fund.code)
        THEN [valuation |-> by_index.ret, nav_cache |-> nav_cache,
              index_cache |-> by_index.cache]
        ELSE IF NavUnavailable(by_nav.ret)
        THEN [valuation |-> by_index.ret, nav_cache |-> by_nav.cache,
              index_cache |-> by_index.cache]
        ELSE [valuation |-> by_nav.ret, nav_cache |-> by_nav.cache,
              index_cache |-> index_cache]

\* lines 626-643: today's estimate added to a valuation, and the amount it
\* adds to the day's total (None: nothing)
WithTodayEstimate(valuation, quotes, mappings) ==
    IF quotes = None \/ valuation.code = NoCode
    THEN [valuation |-> valuation, today_profit |-> None]
    ELSE LET today_est == estimate_today_change(valuation.code, quotes, mappings)
             est_pct == today_est.estimated_change_pct
             v1 == [today_estimated_pct |-> est_pct] @@ valuation
             v2 == IF "tracking_index" \in DOMAIN v1
                   THEN v1
                   ELSE [tracking_index |-> today_est.index_name] @@ v1
             today_profit == RDiv(RMul(v2.market_value, est_pct), FromInt(100))
         IN  IF est_pct # None /\ v2.market_value # Zero
             THEN [valuation |-> [today_estimated_profit |-> Round(today_profit, 2)] @@ v2,
                   today_profit |-> today_profit]
             ELSE [valuation |-> v2, today_profit |-> None]

\* line 651: results.sort(key=market_value, reverse=True), a stable sort
RECURSIVE InsertByMarketValue(_, _)
InsertByMarketValue(sorted, v) ==
    IF sorted = <<>> THEN <<v>>
    ELSE IF RLt(Head(sorted).market_value, v.market_value)
         THEN <<v>> \o sorted
         ELSE <<Head(sorted)>> \o InsertByMarketValue(Tail(sorted), v)

RECURSIVE SortByMarketValue(_, _)
SortByMarketValue(sorted, rest) ==
    IF rest = <<>> THEN sorted
    ELSE SortByMarketValue(InsertByMarketValue(sorted, Head(rest)), Tail(rest))

\* lines 653-670: the summary
Summary(sorted, invested, market_value, today_total, has_today) ==
    LET total_profit == RSub(market_value, invested)
        total_profit_pct == IF RPos(invested)
                            THEN RMul(RDiv(total_profit, invested), FromInt(100))
                            ELSE Zero
        today_estimated_pct == IF RPos(market_value) /\ has_today
                               THEN RMul(RDiv(today_total, market_value), FromInt(100))
                               ELSE None
        summary == [total_invested |-> Round(invested, 2),
                    total_market_value |-> Round(market_value, 2),
                    total_profit |-> Round(total_profit, 2),
                    total_profit_pct |-> Round(total_profit_pct, 2),
                    fund_count |-> Len(sorted)]
    IN  IF has_today
        THEN summary @@
             [today_estimated_profit |-> Round(today_total, 2),
              today_estimated_pct |->
                  IF today_estimated_pct = None \/ today_estimated_pct = Zero
                  THEN None
                  ELSE Round(today_estimated_pct, 2)]
        ELSE summary

\* lines 584-607: the portfolio file and the accumulators
PfStart ==
    /\ pc = "pf_start"
    /\ IF ~portfolio.found
       THEN /\ ret' = [error |-> "no portfolio file"]
            /\ pc' = "pf_done"
       ELSE IF funds_data = <<>>
       THEN /\ ret' = [error |-> "empty portfolio"]
            /\ pc' = "pf_done"
       ELSE /\ pc' = "pf_loop"
            /\ UNCHANGED ret
    /\ fund_i' = 1
    /\ results' = <<>>
    /\ total_invested' = Zero
    /\ portfolio_market_value' = Zero
    /\ total_today_estimated_profit' = Zero
    /\ has_today_estimate' = FALSE
    /\ UNCHANGED <<fund_data, current_nav, nav_history, navLocals, result, cacheVars,
                   idxVars, portfolio, indices_data, provider, callVars, billVars, techVars>>

\* lines 609-648: one turn of the loop; a valuation of None has no .get
PfFund ==
    /\ pc = "pf_loop"
    /\ fund_i <= Len(funds_data)
    /\ LET valued == ValueFund(funds_data[fund_i], fund_index_mapping,
                               fund_nav_cache, index_history_cache, provider)
       IN  /\ fund_nav_cache' = valued.nav_cache
           /\ index_history_cache' = valued.index_cache
           /\ IF valued.valuation = None
              THEN /\ pc' = "raised"
                   /\ UNCHANGED <<fund_i, results, total_invested, portfolio_market_value,
                                  total_today_estimated_profit, has_today_estimate>>
              ELSE LET est == WithTodayEstimate(valued.valuation, indices_data,
                                                fund_index_mapping)
                       valuation == est.valuation
                   IN  /\ results' = Append(results, valuation)
                       /\ total_invested' = RAdd(total_invested, valuation.total_invested)
                       /\ portfolio_market_value' =
                              RAdd(portfolio_market_value, valuation.market_value)
                       /\ IF est.today_profit = None
                          THEN UNCHANGED <<total_today_estimated_profit,
                                           has_today_estimate>>
                          ELSE /\ total_today_estimated_profit' =
                                      RAdd(total_today_estimated_profit, est.today_profit)
                               /\ has_today_estimate' = TRUE
                       /\ fund_i' = fund_i + 1
                       /\ UNCHANGED pc
    /\ UNCHANGED <<fund_data, current_nav, nav_history, navLocals, result, idxVars,
                   portfolio, indices_data, provider, ret, callVars, billVars, techVars>>

\* lines 650-676: the sort, the summary, the return
PfReturn ==
    /\ pc = "pf_loop"
    /\ fund_i > Len(funds_data)
    /\ LET sorted == SortByMarketValue(<<>>, results)
       IN  /\ results' = sorted
           /\ ret' = [funds |-> sorted,
                      summary |-> Summary(sorted, total_invested, portfolio_market_value,
                                          total_today_estimated_profit,
                                          has_today_estimate)]
    /\ pc' = "pf_done"
    /\ UNCHANGED <<fund_data, current_nav, nav_history, navLocals, result, cacheVars,
                   idxVars, portfolio, indices_data, provider, fund_i, total_invested,
                   portfolio_market_value, total_today_estimated_profit,
                   has_today_estimate, callVars, billVars, techVars>>

PfNext == PfStart \/ PfFund \/ PfReturn

\* one row a day, the NAV (in hundredths) rising by 0.10 a day
FullNavSeries == [k \in 1..MaxDay |-> [date |-> k, nav |-> 100 + 10 * (k - 1)]]
FullIndexSeries == IndexRows(FullNavSeries)

\* what the providers can hold for the two funds and the two indices: a
\* current NAV or none for each fund, the NAV histories or a failing history
\* service, the index histories or a failing index service
Providers ==
    [nav_now : [PfCodes -> {-1, 110}],
     nav_rows : {[c \in PfCodes |-> o] : o \in {Raise, Answer(FullNavSeries)}},
     index_rows : {[c \in IndexCodes |-> o] : o \in {Raise, Answer(FullIndexSeries)}}]

\* today's quotes: the CSI 300 and the Nasdaq Composite, or the Nasdaq 100 alone
IndicesTables ==
    {[a_share |-> ("000300" :> Rat(1, 1)), us_stock |-> ("^IXIC" :> Rat(-2, 1))],
     [a_share |-> EmptyDict, us_stock |-> ("^NDX" :> Rat(1, 1))]}

\* positions of no transaction or of one buy of 1000, dated or undated, and
\* positions of one dated buy of 1000 of which half was redeemed since
\* (portfolio.py, line 301: net_invested = buy - sell)
PfPositions ==
    {[code |-> c, net_invested |-> SeqSum(AmountsOf(txs)), buy_transactions |-> txs] :
        c \in {NoCode} \cup PfCodes,
        txs \in {<<>>} \cup
                {<<[date |-> s, amount |-> 1000]>> :
                    s \in {Garbage} \cup
                          {t \in DateOnlyStrings : t.sep = "-" /\ t.date = 1}}}
    \cup
    {[code |-> c, net_invested |-> 500,
      buy_transactions |-> <<[date |-> s, amount |-> 1000]>>] :
        c \in PfCodes, s \in {t \in DateOnlyStrings : t.sep = "-" /\ t.date = 1}}

PortfolioFiles ==
    {[found |-> FALSE, funds |-> <<>>]} \cup
    {[found |-> TRUE, funds |-> fs] :
        fs \in UNION {[1..n -> PfPositions] : n \in 0..MaxFunds}}

InitPortfolio ==
    /\ pc = "pf_start"
    /\ fund_data = [code |-> NoCode, net_invested |-> 0, buy_transactions |-> <<>>]
    /\ current_nav = None
    /\ nav_history = <<>>
    /\ tx_idx = 0
    /\ total_shares = Zero
    /\ total_cost = Zero
    /\ uncalculated_amount = Zero
    /\ tx_time = None
    /\ confirm_date = None
    /\ buy_nav = None
    /\ result = None
    /\ fund_nav_cache = EmptyDict
    /\ index_history_cache = EmptyDict
    /\ fund_index_mapping \in {EmptyDict, (FundCode :> AShareMap) @@ (QdiiCode :> UsMap)}
    /\ index_history = <<>>
    /\ today_value = None
    /\ total_market_value = Zero
    /\ portfolio \in PortfolioFiles
    /\ indices_data \in {None} \cup IndicesTables
    /\ provider \in Providers
    /\ fund_i = 0
    /\ results = <<>>
    /\ total_invested = Zero
    /\ portfolio_market_value = Zero
    /\ total_today_estimated_profit = Zero
    /\ has_today_estimate = FALSE
    /\ ret = None
    /\ CallIdle
    /\ BillIdle
    /\ TechIdle

SpecPortfolio == InitPortfolio /\ [][PfNext]_vars

\* ------------------------------------------------------------------------
\* Properties of the portfolio engine
\* ------------------------------------------------------------------------
\* what each method returns for position i, the providers being what they are
ByNav(i) == calculate_fund_valuation_by_nav(funds_data[i], EmptyDict, provider).ret
ByIndex(i) ==
    calculate_fund_valuation_by_index(funds_data[i], fund_index_mapping,
                                      EmptyDict, provider).ret

UsedNav(v) == "calc_method" \in DOMAIN v
UsedPassthrough(v) == "error" \in DOMAIN v
UsedIndex(v) == ~UsedNav(v) /\ ~UsedPassthrough(v)

\* position i holds a fund mapped to an index of the US market
MappedToUs(i) ==
    /\ funds_data[i].code \in DOMAIN fund_index_mapping
    /\ fund_index_mapping[funds_data[i].code].market = "us"

\* the fallback order on position i, valued as v
FallbackOrder(i, v) ==
    /\ ByNav(i) # None => UsedNav(v) /\ v.market_value = ByNav(i).market_value
    /\ UsedIndex(v) => ByNav(i) = None /\ v.market_value = ByIndex(i).market_value
    /\ UsedPassthrough(v) => ByNav(i) = None /\ UsedPassthrough(ByIndex(i))

OnePerPosition(funds, positions) ==
    \E p \in [1..Len(positions) -> 1..Len(funds)] :
        /\ \A i, j \in 1..Len(positions) : p[i] = p[j] => i = j
        /\ \A i \in 1..Len(positions) :
              /\ funds[p[i]].code = positions[i].code
              /\ funds[p[i]].total_invested = FromInt(positions[i].net_invested)

\* C7: over a portfolio of n >= 1 positions calculate_portfolio_valuation
\* raises nothing and returns a funds list of exactly n entries, one per
\* position, each with a market_value, and summary.fund_count = n, whatever
\* the collaborators answer.
C7_OneValuationPerPosition ==
    /\ pc # "raised"
    /\ (pc = "pf_done" /\ portfolio.found /\ Len(funds_data) >= 1) =>
          /\ "funds" \in DOMAIN ret
          /\ Len(ret.funds) = Len(funds_data)
          /\ \A j \in 1..Len(ret.funds) : "market_value" \in DOMAIN ret.funds[j]
          /\ OnePerPosition(ret.funds, funds_data)
          /\ ret.summary.fund_count = Len(funds_data)

\* C7 witness: a portfolio of two positions or more was valued, one of no
\* fund code, one of a fund with no mapping, no NAV history and an undated buy
C7_Witness ==
    /\ pc = "pf_done"
    /\ Len(funds_data) >= 2
    /\ "funds" \in DOMAIN ret
    /\ fund_index_mapping = EmptyDict
    /\ provider.nav_rows[FundCode].raised
    /\ \E i \in 1..Len(funds_data) : funds_data[i].code = NoCode
    /\ \E i \in 1..Len(funds_data) :
          /\ funds_data[i].code = FundCode
          /\ funds_data[i].buy_transactions # <<>>
          /\ funds_data[i].buy_transactions[1].date = Garbage

\* ------------------------------------------------------------------------
\* The history getters as their callers use them
\* ------------------------------------------------------------------------
MaxCalls == 3                     \* calls a caller makes

WindowDays == {1, 2, DefaultDays}

\* what the history services can hold: they fail, answer nothing or answer
\* a row a day
CacheProviders ==
    [nav_now : {[c \in PfCodes |-> -1]},
     nav_rows : {[c \in PfCodes |-> o] :
                    o \in {Raise, Answer(<<>>), Answer(FullNavSeries)}},
     index_rows : {[c \in IndexCodes |-> o] :
                      o \in {Raise, Answer(<<>>), Answer(FullIndexSeries)}}]

Called(fn, symbol, days, include_volume, got) ==
    /\ calls < MaxCalls
    /\ calls' = calls + 1
    /\ last_call' = [fn |-> fn, symbol |-> symbol, days |-> days,
                     include_volume |-> include_volume,
                     key |-> got.key, invoked |-> got.invoked]
    /\ last_ret' = got.ret
    /\ fetches' = IF ~got.invoked THEN fetches
                  ELSE IF got.key \in DOMAIN fetches
                  THEN [fetches EXCEPT ![got.key] = @ + 1]
                  ELSE (got.key :> 1) @@ fetches
    /\ UNCHANGED <<navVars, idxVars, pfVars, billVars, techVars>>

\* a call of get_fund_nav_history(fund_code, days)
CallFundNavHistory ==
    \E fund_code \in PfCodes, days \in WindowDays :
        LET got == get_fund_nav_history(fund_nav_cache, fund_code, days,
                                        provider.nav_rows[fund_code])
        IN  /\ Called("get_fund_nav_history", fund_code, days, FALSE, got)
            /\ fund_nav_cache' = got.cache
            /\ UNCHANGED index_history_cache

\* a call of get_a_share_index_history(index_code, days, include_volume)
CallAShareIndexHistory ==
    \E days \in WindowDays, include_volume \in BOOLEAN :
        LET index_code == AShareMap.index_code
            got == get_a_share_index_history(index_history_cache, index_code, days,
                                             include_volume,
                                             provider.index_rows[index_code])
        IN  /\ Called("get_a_share_index_history", index_code, days, include_volume, got)
            /\ index_history_cache' = got.cache
            /\ UNCHANGED fund_nav_cache

\* a call of get_us_index_history(index_code, days)
CallUsIndexHistory ==
    \E days \in WindowDays :
        LET index_code == UsMap.index_code
            got == get_us_index_history(index_history_cache, index_code, days,
                                        provider.index_rows[index_code])
        IN  /\ Called("get_us_index_history", index_code, days, FALSE, got)
            /\ index_history_cache' = got.cache
            /\ UNCHANGED fund_nav_cache

CacheNext == CallFundNavHistory \/ CallAShareIndexHistory \/ CallUsIndexHistory

InitCache ==
    /\ pc = "calls"
    /\ fund_data = [code |-> NoCode, net_invested |-> 0, buy_transactions |-> <<>>]
    /\ current_nav = None
    /\ nav_history = <<>>
    /\ tx_idx = 0
    /\ total_shares = Zero
    /\ total_cost = Zero
    /\ uncalculated_amount = Zero
    /\ tx_time = None
    /\ confirm_date = None
    /\ buy_nav = None
    /\ result = None
    /\ fund_nav_cache = EmptyDict
    /\ index_history_cache = EmptyDict
    /\ IdxIdle
    /\ portfolio = [found |-> FALSE, funds |-> <<>>]
    /\ indices_data = None
    /\ provider \in CacheProviders
    /\ fund_i = 0
    /\ results = <<>>
    /\ total_invested = Zero
    /\ portfolio_market_value = Zero
    /\ total_today_estimated_profit = Zero
    /\ has_today_estimate = FALSE
    /\ ret = None
    /\ CallIdle
    /\ BillIdle
    /\ TechIdle

SpecCache == InitCache /\ [][CacheNext]_vars

\* what the provider holds for the symbol of a call
HeldFor(call) ==
    LET held == IF call.fn = "get_fund_nav_history"
                THEN provider.nav_rows[call.symbol]
                ELSE provider.index_rows[call.symbol]
    IN  IF held.raised THEN <<>> ELSE held.rows

\* the series restricted to the trailing window of the call
TrailingWindow(call) ==
    IF call.fn = "get_fund_nav_history"
    THEN NavWindow(HeldFor(call), call.days)
    ELSE IF call.fn = "get_a_share_index_history"
    THEN Columns(AShareWindow(HeldFor(call), call.days), call.include_volume)
    ELSE Columns(UsWindow(HeldFor(call), call.days), FALSE)

\* C10: a call of a history getter with window days = d returns the series
\* restricted to the trailing d-day window, also when an earlier call for the
\* same symbol used another number of days.
C10_WindowOfEachCall ==
    calls > 0 => last_ret = TrailingWindow(last_call)

\* the two caches as one mapping (their keys never coincide)
AllCached == fund_nav_cache @@ index_history_cache

\* C11 as stated: within a run the provider is invoked at most once for every
\* cache key, whatever it returned the first time.
C11_FetchOncePerKey ==
    \A k \in DOMAIN fetches : fetches[k] <= 1

\* C11: once a key is in the cache the provider is never invoked for it again
\* and its entry is never rewritten (so a key is fetched with success at most
\* once a run); a key whose fetch failed or came back empty is not in the
\* cache and is fetched again by the next call.
C11_FetchOnceWhenStored ==
    [][\A k \in DOMAIN AllCached :
          /\ k \in DOMAIN AllCached'
          /\ AllCached'[k] = AllCached[k]
          /\ k \in DOMAIN fetches
          /\ fetches'[k] = fetches[k]
          /\ fetches[k] = 1]_vars

\* C11 witness: a key was fetched once and then served from the cache
C11_Witness ==
    /\ calls >= 2
    /\ ~last_call.invoked
    /\ last_call.key \in DOMAIN AllCached
    /\ fetches[last_call.key] = 1

\* the provider was asked by the last call and failed or had nothing
LastFetchFailed ==
    /\ calls > 0
    /\ last_call.invoked
    /\ LET held == IF last_call.fn = "get_fund_nav_history"
                   THEN provider.nav_rows[last_call.symbol]
                   ELSE provider.index_rows[last_call.symbol]
       IN  held.raised \/ held.rows = <<>>

\* C12: when the provider raises or returns an empty result the getter
\* returns an empty series and leaves the cache as it was: no entry for the
\* key, the entries of the other keys untouched.
C12_FailureLeavesCache ==
    [][LastFetchFailed' /\ calls' = calls + 1 =>
          /\ last_ret' = <<>>
          /\ UNCHANGED cacheVars
          /\ last_call'.key \notin DOMAIN AllCached']_vars

\* C12 witness: a getter failed while the cache held the entry of another key
C12_Witness ==
    /\ LastFetchFailed
    /\ last_ret = <<>>
    /\ AllCached # EmptyDict
    /\ last_call.key \notin DOMAIN AllCached

\* ------------------------------------------------------------------------
\* The smart signal: generate_smart_signal (technical.py)
\* ------------------------------------------------------------------------
\* Python truth of a number that may be absent: neither None nor 0
Truthy(x) == x # None /\ x # Zero

RGt(x, y) == RLt(y, x)
RGeq(x, y) == RLeq(y, x)

\* (price - ma) / ma * 100
DistancePct(p, ma) == RMul(RDiv(RSub(p, ma), ma), FromInt(100))

NoReason == ""

\* sell_score += / buy_score += and reasons.append
Score(acc, buy, sell, reason) ==
    [buy_score |-> acc.buy_score + buy,
     sell_score |-> acc.sell_score + sell,
     reasons |-> IF reason = NoReason THEN acc.reasons ELSE Append(acc.reasons, reason)]

\* mutant: two percent below MA10 already counts as the deep break
Ma10BreakInclusive(distance_ma10) == RLeq(distance_ma10, FromInt(-2))

\* line 332: if distance_ma10 < -2
Ma10Break(distance_ma10) == RLt(distance_ma10, FromInt(-2))

\* lines 329-347: the position against MA10
SigMa10(acc, p, ma10) ==
    IF ~Truthy(ma10) THEN acc
    ELSE LET distance_ma10 == DistancePct(p, ma10)
         IN  IF Ma10Break(distance_ma10) THEN Score(acc, 0, 3, "below MA10 by over 2%")
             ELSE IF RLt(distance_ma10, FromInt(-1)) THEN Score(acc, 0, 2, "below MA10")
             ELSE IF RLt(distance_ma10, Zero) THEN Score(acc, 0, 1, "slightly below MA10")
             ELSE IF RGt(distance_ma10, FromInt(3)) THEN Score(acc, 0, 1, "far above MA10")
             ELSE acc

\* lines 350-358: the position against MA20
SigMa20(acc, p, ma20) ==
    IF ~Truthy(ma20) THEN acc
    ELSE IF RGt(p, ma20) THEN Score(acc, 2, 0, "above MA20")
    ELSE IF RLt(DistancePct(p, ma20), FromInt(-2)) THEN Score(acc, 0, 2, "below MA20")
    ELSE acc

\* lines 361-366: the position against MA60
SigMa60(acc, p, ma60) ==
    IF ~Truthy(ma60) THEN acc
    ELSE IF RGt(p, ma60) THEN Score(acc, 1, 0, "above MA60")
    ELSE Score(acc, 0, 1, NoReason)

\* lines 370-380: the slope of MA20
SigSlope(acc, slope) ==
    IF slope = None THEN acc
    ELSE IF RGt(slope, Rat(1, 2)) THEN Score(acc, 2, 0, "MA20 rising")
    ELSE IF RGt(slope, Zero) THEN Score(acc, 1, 0, NoReason)
    ELSE IF RLt(slope, Rat(-1, 2)) THEN Score(acc, 0, 2, "MA20 falling")
    ELSE IF RLt(slope, Zero) THEN Score(acc, 0, 1, NoReason)
    ELSE acc

\* lines 384-392: consecutive days below MA10
SigDaysBelow(acc, days) ==
    IF days >= 3 THEN Score(acc, 0, 2, "days below MA10")
    ELSE IF days = 2 THEN Score(acc, 0, 1, "2 days below MA10")
    ELSE acc

\* lines 396-404: the volume, looked at under MA10 only
SigVolume(acc, p, ma10, volume) ==
    IF volume = None THEN acc
    ELSE IF ~(IF Truthy(ma10) THEN RLt(p, ma10) ELSE FALSE) THEN acc
    ELSE IF RGt(volume, FromInt(120)) THEN Score(acc, 0, 2, "falling on volume")
    ELSE IF RLt(volume, FromInt(80)) THEN Score(acc, 1, 0, "low-volume pullback")
    ELSE acc

\* lines 408-425: RSI
SigRsi(acc, p, ma10, r) ==
    IF r = None THEN acc
    ELSE IF RGt(r, FromInt(80)) THEN Score(acc, 0, 2, "RSI heavily overbought")
    ELSE IF RGt(r, FromInt(70)) THEN Score(acc, 0, 1, "RSI overbought")
    ELSE IF RLt(r, FromInt(20)) THEN Score(acc, 2, 0, "RSI heavily oversold")
    ELSE IF RLt(r, FromInt(30)) THEN Score(acc, 1, 0, "RSI oversold")
    ELSE IF RLeq(FromInt(40), r) /\ RLeq(r, FromInt(60))
    THEN IF Truthy(ma10) /\ RLt(p, ma10)
         THEN Score(acc, 1, 0, "RSI neutral, stabilising")
         ELSE acc
    ELSE acc

\* lines 429-437: the market breadth (rise_ratio, or None for no breadth data)
SigBreadth(acc, rise_ratio) ==
    IF rise_ratio = None THEN acc
    ELSE IF RGt(rise_ratio, Rat(12, 10)) THEN Score(acc, 1, 0, "breadth strong")
    ELSE IF RLt(rise_ratio, Rat(8, 10)) THEN Score(acc, 0, 1, "breadth weak")
    ELSE acc

\* mutant: the pullback counts wherever the price stands against MA10
SigBullPullbackAnywhere(acc, p, ma10, ma20, slope) ==
    IF Truthy(ma10) /\ Truthy(ma20) /\ slope # None
    THEN IF RGt(p, ma20) /\ RGt(slope, Zero)
         THEN Score(acc, 2, -1, "bull pullback to MA10")
         ELSE acc
    ELSE acc

\* lines 441-446: under MA10, over MA20, MA20 rising
SigBullPullback(acc, p, ma10, ma20, slope) ==
    IF Truthy(ma10) /\ Truthy(ma20) /\ slope # None
    THEN IF RLt(p, ma10) /\ RGt(p, ma20) /\ RGt(slope, Zero)
         THEN Score(acc, 2, -1, "bull pullback to MA10")
         ELSE acc
    ELSE acc

\* mutant: a net score of 3 is already a buy
SignalActionEarlyBuy(net_score) ==
    IF net_score >= 3 THEN "buy"
    ELSE IF net_score >= 2 THEN "hold"
    ELSE IF net_score >= 0 THEN "watch"
    ELSE IF net_score >= -2 THEN "reduce"
    ELSE "sell"

\* lines 452-471: the action of a net score
SignalAction(net_score) ==
    IF net_score >= 4 THEN "buy"
    ELSE IF net_score >= 2 THEN "hold"
    ELSE IF net_score >= 0 THEN "watch"
    ELSE IF net_score >= -2 THEN "reduce"
    ELSE "sell"

Min(a, b) == IF a <= b THEN a ELSE b
Max(a, b) == IF a >= b THEN a ELSE b

\* line 474
SignalConfidence(net_score) == Min(5, Max(1, Abs(net_score)))

\* lines 308-315: nothing to go by
UnknownSignal ==
    [action |-> "unknown", confidence |-> 0, reasons |-> <<"insufficient data">>]

\* generate_smart_signal (m: the averages, None for no averages at all)
generate_smart_signal(p, m, r, volume, slope, days, rise_ratio) ==
    IF m = None \/ ~Truthy(p) THEN UnknownSignal
    ELSE LET a0 == [buy_score |-> 0, sell_score |-> 0, reasons |-> <<>>]
             a1 == SigMa10(a0, p, m.ma10)
             a2 == SigMa20(a1, p, m.ma20)
             a3 == SigMa60(a2, p, m.ma60)
             a4 == SigSlope(a3, slope)
             a5 == SigDaysBelow(a4, days)
             a6 == SigVolume(a5, p, m.ma10, volume)
             a7 == SigRsi(a6, p, m.ma10, r)
             a8 == SigBreadth(a7, rise_ratio)
             a9 == SigBullPullback(a8, p, m.ma10, m.ma20, slope)
             net_score == a9.buy_score - a9.sell_score
         IN  [action |-> SignalAction(net_score),
              confidence |-> SignalConfidence(net_score),
              reasons |-> SubSeq(a9.reasons, 1, Min(5, Len(a9.reasons))),
              scores |-> [buy_score |-> a9.buy_score,
                          sell_score |-> a9.sell_score,
                          net_score |-> net_score]]

\* a call of generate_smart_signal
GenerateSmartSignal ==
    /\ pc = "signal"
    /\ smart_signal' = generate_smart_signal(price, mas, rsi, volume_ratio, ma20_slope,
                                             days_below_ma10, market_breadth)
    /\ pc' = "signalled"
    /\ UNCHANGED <<fund_data, current_nav, nav_history, navLocals, result, cacheVars,
                   idxVars, pfVars, callVars, billVars>>
    /\ UNCHANGED <<price, mas, rsi, volume_ratio, ma20_slope, days_below_ma10,
                   market_breadth, recVars, pctVars, riskVars, allVars>>

SigNext == GenerateSmartSignal

\* an index around 100: prices and averages in tenths
Tenths(S) == {Rat(x, 10) : x \in S}
Prices == Tenths({0, 970, 980, 990, 995, 1000, 1030, 1040})
MaSets ==
    [ma10 : {None, FromInt(100)},
     ma20 : {None, FromInt(96), FromInt(100)},
     ma60 : {None, FromInt(100)}]
Slopes == {None} \cup Tenths({-10, -5, 0, 5, 10})
DaysBelow == 0..3
VolumeRatios == {None} \cup {FromInt(x) : x \in {70, 80, 120, 130}}
RsiValues == {None} \cup {FromInt(x) : x \in {10, 20, 30, 40, 60, 70, 80, 90}}
RiseRatios == {None} \cup Tenths({7, 8, 12, 13})

\* everything but the technical analysis is at rest
RestIdle ==
    /\ fund_data = [code |-> NoCode, net_invested |-> 0, buy_transactions |-> <<>>]
    /\ current_nav = None
    /\ nav_history = <<>>
    /\ tx_idx = 0
    /\ total_shares = Zero
    /\ total_cost = Zero
    /\ uncalculated_amount = Zero
    /\ tx_time = None
    /\ confirm_date = None
    /\ buy_nav = None
    /\ result = None
    /\ fund_nav_cache = EmptyDict
    /\ index_history_cache = EmptyDict
    /\ IdxIdle
    /\ PfIdle
    /\ CallIdle
    /\ BillIdle

InitSignal ==
    /\ pc = "signal"
    /\ RestIdle
    /\ price \in Prices
    /\ mas \in {None} \cup MaSets
    /\ rsi \in RsiValues
    /\ volume_ratio \in VolumeRatios
    /\ ma20_slope \in Slopes
    /\ days_below_ma10 \in DaysBelow
    /\ market_breadth \in RiseRatios
    /\ smart_signal = None
    /\ RecIdle
    /\ PctIdle
    /\ RiskIdle
    /\ AllIdle

SpecSignal == InitSignal /\ [][SigNext]_vars

\* ------------------------------------------------------------------------
\* Properties of the smart signal
\* ------------------------------------------------------------------------
Scored == pc = "signalled" /\ "scores" \in DOMAIN smart_signal

Has(ma) == ma # None /\ ma # Zero

\* p lies more than pct percent under ma / over ma
UnderBy(p, ma, pct) == RLt(p, RMul(ma, Rat(100 - pct, 100)))
OverBy(p, ma, pct) == RGt(p, RMul(ma, Rat(100 + pct, 100)))

UnderMa10 == Has(mas.ma10) /\ RLt(price, mas.ma10)

\* The rule list: what each rule adds, as <<buy points, sell points>>
RuleMa10 ==
    IF ~Has(mas.ma10) THEN <<0, 0>>
    ELSE IF UnderBy(price, mas.ma10, 2) THEN <<0, 3>>
    ELSE IF UnderBy(price, mas.ma10, 1) THEN <<0, 2>>
    ELSE IF UnderBy(price, mas.ma10, 0) THEN <<0, 1>>
    ELSE IF OverBy(price, mas.ma10, 3) THEN <<0, 1>>
    ELSE <<0, 0>>

RuleMa20 ==
    IF ~Has(mas.ma20) THEN <<0, 0>>
    ELSE IF RGt(price, mas.ma20) THEN <<2, 0>>
    ELSE IF UnderBy(price, mas.ma20, 2) THEN <<0, 2>>
    ELSE <<0, 0>>

RuleMa60 ==
    IF ~Has(mas.ma60) THEN <<0, 0>>
    ELSE IF RGt(price, mas.ma60) THEN <<1, 0>>
    ELSE <<0, 1>>

RuleSlope ==
    IF ma20_slope = None \/ ma20_slope = Zero THEN <<0, 0>>
    ELSE IF RPos(ma20_slope)
         THEN (IF RGt(ma20_slope, Rat(5, 10)) THEN <<2, 0>> ELSE <<1, 0>>)
         ELSE (IF RLt(ma20_slope, Rat(-5, 10)) THEN <<0, 2>> ELSE <<0, 1>>)

RuleDays ==
    IF days_below_ma10 >= 3 THEN <<0, 2>>
    ELSE IF days_below_ma10 = 2 THEN <<0, 1>>
    ELSE <<0, 0>>

RuleVolume ==
    IF volume_ratio = None \/ ~UnderMa10 THEN <<0, 0>>
    ELSE IF RGt(volume_ratio, FromInt(120)) THEN <<0, 2>>
    ELSE IF RLt(volume_ratio, FromInt(80)) THEN <<1, 0>>
    ELSE <<0, 0>>

RuleRsi ==
    IF rsi = None THEN <<0, 0>>
    ELSE IF RGt(rsi, FromInt(80)) THEN <<0, 2>>
    ELSE IF RGt(rsi, FromInt(70)) THEN <<0, 1>>
    ELSE IF RLt(rsi, FromInt(20)) THEN <<2, 0>>
    ELSE IF RLt(rsi, FromInt(30)) THEN <<1, 0>>
    ELSE IF RGeq(rsi, FromInt(40)) /\ RLeq(rsi, FromInt(60)) /\ UnderMa10 THEN <<1, 0>>
    ELSE <<0, 0>>

RuleBreadth ==
    IF market_breadth = None THEN <<0, 0>>
    ELSE IF RGt(market_breadth, Rat(12, 10)) THEN <<1, 0>>
    ELSE IF RLt(market_breadth, Rat(8, 10)) THEN <<0, 1>>
    ELSE <<0, 0>>

BullPullback ==
    /\ UnderMa10
    /\ Has(mas.ma20) /\ RGt(price, mas.ma20)
    /\ ma20_slope # None /\ RPos(ma20_slope)

RuleBull == IF BullPullback THEN <<2, -1>> ELSE <<0, 0>>

Rules == <<RuleMa10, RuleMa20, RuleMa60, RuleSlope, RuleDays, RuleVolume, RuleRsi,
           RuleBreadth, RuleBull>>

RECURSIVE SumRules(_, _)
SumRules(rules, side) ==
    IF rules = <<>> THEN 0 ELSE rules[1][side] + SumRules(Tail(rules), side)

\* only MA10 is known and nothing else is given
OnlyMa10 ==
    /\ Has(mas.ma10) /\ mas.ma20 = None /\ mas.ma60 = None
    /\ rsi = None /\ volume_ratio = None /\ ma20_slope = None
    /\ days_below_ma10 = 0 /\ market_breadth = None

\* C13: the scores are the sums of the points of the triggered rules, with
\* strict boundaries: 2% below MA10 scores sell+2, a slope of exactly 0, an
\* RSI of exactly 70 or 30 and exactly 1 day below MA10 score nothing.
C13_AdditiveScores ==
    Scored =>
        /\ smart_signal.scores.buy_score = SumRules(Rules, 1)
        /\ smart_signal.scores.sell_score = SumRules(Rules, 2)
        /\ (OnlyMa10 /\ price = RMul(mas.ma10, Rat(98, 100)))
              => smart_signal.scores.sell_score = 2
        /\ (mas = [ma10 |-> None, ma20 |-> None, ma60 |-> None]
            /\ volume_ratio = None /\ market_breadth = None
            /\ ma20_slope \in {None, Zero}
            /\ rsi \in {None, FromInt(70), FromInt(30)}
            /\ days_below_ma10 \in {0, 1})
              => smart_signal.scores = [buy_score |-> 0, sell_score |-> 0, net_score |-> 0]

\* C13 witness: a scored pullback under MA10 and over MA20 with MA20 rising,
\* volume and RSI given
C13_Witness ==
    /\ Scored
    /\ BullPullback
    /\ volume_ratio # None
    /\ rsi # None
    /\ smart_signal.scores.buy_score >= 4

\* C14: net_score = buy_score - sell_score; buy iff net >= 4, hold iff
\* 2 <= net < 4, watch iff 0 <= net < 2, reduce iff -2 <= net < 0, sell iff
\* net < -2; confidence = min(5, max(1, |net|)), always in 1..5.
C14_ActionAndConfidence ==
    Scored =>
        LET net == smart_signal.scores.net_score
            magnitude == IF net < 0 THEN 0 - net ELSE net
        IN  /\ net = smart_signal.scores.buy_score - smart_signal.scores.sell_score
            /\ smart_signal.action = "buy" <=> net >= 4
            /\ smart_signal.action = "hold" <=> (2 <= net /\ net < 4)
            /\ smart_signal.action = "watch" <=> (0 <= net /\ net < 2)
            /\ smart_signal.action = "reduce" <=> (-2 <= net /\ net < 0)
            /\ smart_signal.action = "sell" <=> net < -2
            /\ smart_signal.confidence \in 1..5
            /\ magnitude < 1 => smart_signal.confidence = 1
            /\ magnitude > 5 => smart_signal.confidence = 5
            /\ magnitude \in 1..5 => smart_signal.confidence = magnitude

\* C14 witness: a net score of 0 was returned as watch with confidence 1
C14_Witness ==
    /\ Scored
    /\ smart_signal.scores.net_score = 0
    /\ smart_signal.scores.buy_score > 0
    /\ smart_signal.action = "watch"
    /\ smart_signal.confidence = 1

\* the reasons each rule can give
RuleReasons ==
    <<{"below MA10 by over 2%", "below MA10", "slightly below MA10", "far above MA10"},
      {"above MA20", "below MA20"},
      {"above MA60"},
      {"MA20 rising", "MA20 falling"},
      {"days below MA10", "2 days below MA10"},
      {"falling on volume", "low-volume pullback"},
      {"RSI heavily overbought", "RSI overbought", "RSI heavily oversold",
       "RSI oversold", "RSI neutral, stabilising"},
      {"breadth strong", "breadth weak"},
      {"bull pullback to MA10"}>>

Fired(k) == Rules[k] # <<0, 0>>

Returned(k) == \E i \in 1..Len(smart_signal.reasons) : smart_signal.reasons[i] \in RuleReasons[k]

\* every reason returned belongs to a rule that fired
SigReasonsOfFiredRules ==
    Scored => \A k \in 1..Len(Rules) : Returned(k) => Fired(k)

\* C15: the reasons returned are those of the triggered rules: every rule
\* that changed a score has its reason in the list, and every reason in the
\* list belongs to a rule that fired.
C15_ReasonsMatchRules ==
    Scored => \A k \in 1..Len(Rules) : Fired(k) <=> Returned(k)

\* ------------------------------------------------------------------------
\* The contextual recommendation (technical.py, lines 1545-1860 and 1995-2009)
\* ------------------------------------------------------------------------
\* dict.get(key, default)
Get(d, key, default) == IF key \in DOMAIN d THEN d[key] ELSE default

\* lines 1657-1669: the composite percentile of the valuation
ValPercentile(vd) ==
    IF vd = None THEN None
    ELSE LET pe_pct == Get(vd, "pe_percentile", None)
             pb_pct == Get(vd, "pb_percentile", None)
         IN  IF pe_pct # None /\ pb_pct # None
             THEN RDiv(RAdd(pe_pct, pb_pct), FromInt(2))
             ELSE IF pe_pct # None THEN pe_pct
             ELSE IF pb_pct # None THEN pb_pct
             ELSE None

\* line 1672
PositionWeight(pd) == IF pd = None THEN Zero ELSE Get(pd, "weight", Zero)

\* line 1676
NetScore(td) ==
    Get(Get(Get(td, "smart_signal", EmptyDict), "scores", EmptyDict), "net_score", 0)

\* mutant: a net score of 3 is not yet strong
TrendStrengthAbove3(net_score) ==
    IF net_score > 3 THEN "strong" ELSE IF net_score >= 0 THEN "medium" ELSE "weak"

\* lines 1677-1685
TrendStrength(net_score) ==
    IF net_score >= 3 THEN "strong" ELSE IF net_score >= 0 THEN "medium" ELSE "weak"

\* lines 1688-1700
ValuationLevel(val_percentile) ==
    IF val_percentile # None
    THEN IF RLeq(val_percentile, FromInt(30)) THEN "low"
         ELSE IF RGeq(val_percentile, FromInt(70)) THEN "high"
         ELSE "medium"
    ELSE "unknown"

\* lines 1703-1714
PositionLevel(position_weight) ==
    IF RGeq(position_weight, FromInt(30)) THEN "heavy"
    ELSE IF RGeq(position_weight, FromInt(15)) THEN "medium"
    ELSE IF RGt(position_weight, Zero) THEN "light"
    ELSE "empty"

\* what a branch of the table sets
Decision(a, a_cn, c, ctx, why, warn, advice) ==
    [action |-> a, action_cn |-> a_cn, confidence |-> c, context |-> ctx,
     reasoning |-> why, risk_warnings |-> warn, position_advice |-> advice]

\* lines 1722-1818: the decision table, an if/elif chain
DecisionTable(trend_strength, valuation_level, position_level) ==
    IF trend_strength = "strong" /\ valuation_level = "low"
       /\ position_level \in {"light", "empty"}
    THEN Decision("strong_buy", "buy actively", 5, "golden entry",
                  <<"trend and valuation", "room to add">>, <<>>,
                  "build the position in 2-3 steps")
    ELSE IF trend_strength = "strong" /\ valuation_level = "low"
            /\ position_level = "heavy"
    THEN Decision("hold", "hold firmly", 4, "best holding period",
                  <<"trend and valuation", "keep holding">>, <<>>,
                  "nothing to do until the trend turns")
    ELSE IF trend_strength = "strong" /\ valuation_level = "high"
            /\ position_level \in {"heavy", "medium"}
    THEN Decision("take_profit", "take profit gradually", 4, "risk at the top",
                  <<"trend and valuation", "realise profit">>,
                  <<"valuation percentile is high">>, "sell a third")
    ELSE IF trend_strength = "strong" /\ valuation_level = "high"
            /\ position_level \in {"light", "empty"}
    THEN Decision("small_position", "try a small stake", 2, "chasing at the top",
                  <<"trend and valuation", "small stake only">>,
                  <<"chasing a highly valued asset">>, "10-15% with a strict stop")
    ELSE IF trend_strength = "weak" /\ valuation_level = "low"
    THEN Decision("accumulate", "build in steps", 3, "buying low",
                  <<"trend and valuation", "attractive value">>,
                  <<"may keep falling">>, "invest regularly or in 3-5 steps")
    ELSE IF trend_strength = "weak" /\ valuation_level = "high"
            /\ position_level \in {"heavy", "medium"}
    THEN Decision("reduce", "reduce for safety", 5, "high risk zone",
                  <<"trend and valuation", "exposure too large">>,
                  <<"valuation and trend both against">>, "sell half or more")
    ELSE IF trend_strength = "weak" /\ valuation_level = "high"
            /\ position_level \in {"light", "empty"}
    THEN Decision("wait", "wait patiently", 4, "waiting for a chance",
                  <<"trend and valuation", "staying out is right">>, <<>>,
                  "keep watching")
    ELSE IF valuation_level = "low" /\ position_level \in {"light", "empty"}
    THEN Decision("buy_dip", "buy the dip", 3, "accumulating in a range",
                  <<"trend and valuation">>, <<>>,
                  "add a little on pullbacks")
    ELSE IF valuation_level = "high" /\ position_level \in {"heavy", "medium"}
    THEN Decision("trim", "trim moderately", 3, "ranging at the top",
                  <<"trend and valuation">>,
                  <<"high valuation in a sideways market">>, "sell 20-30%")
    ELSE Decision("hold", "hold and watch", 2, "no clear direction",
                  <<"trend, valuation and position">>, <<>>,
                  "stay as you are")

\* line 1655
RsiOf(td) == Get(Get(td, "rsi", EmptyDict), "rsi", None)

\* line 1822
Overbought(r) == RGt(r, FromInt(75))

\* mutant: only the strongest buy is held back
DowngradedStrongBuyOnly(a) == a = "strong_buy"

\* line 1824
Downgraded(a) == a \in {"strong_buy", "buy_dip"}

\* mutant: a downgraded decision also loses its confidence
RsiCorrectionUnsure(d, r) ==
    IF Truthy(r) /\ Overbought(r)
    THEN IF Downgraded(d.action)
         THEN [d EXCEPT !.action = "wait", !.action_cn = "wait for the pullback",
                        !.confidence = 2,
                        !.reasoning = Append(@, "wait for a pullback"),
                        !.risk_warnings = Append(@, "RSI overbought")]
         ELSE [d EXCEPT !.risk_warnings = Append(@, "RSI overbought")]
    ELSE d

\* lines 1820-1829: the RSI correction of a decision
RsiCorrection(d, r) ==
    IF Truthy(r)
    THEN IF Overbought(r)
         THEN LET warned == [d EXCEPT !.risk_warnings = Append(@, "RSI overbought")]
              IN  IF Downgraded(d.action)
                  THEN [warned EXCEPT !.action = "wait",
                                      !.action_cn = "wait for the pullback",
                                      !.reasoning = Append(@, "wait for a pullback")]
                  ELSE warned
         ELSE IF RLt(r, FromInt(25))
              THEN [d EXCEPT !.reasoning = Append(@, "RSI oversold")]
              ELSE d
    ELSE d

\* mutant: a score of -30 is already pessimistic
PessimisticFrom30(sentiment_score) == RLeq(sentiment_score, FromInt(-30))

\* line 1835
Pessimistic(sentiment_score) == RLt(sentiment_score, FromInt(-30))

\* line 1837
Optimistic(sentiment_score) == RGt(sentiment_score, FromInt(30))

\* lines 1831-1838: the market sentiment correction of a decision
SentimentCorrection(d, sd) ==
    IF sd # None
    THEN LET summary == Get(sd, "summary", EmptyDict)
             sentiment_score == Get(summary, "score", Zero)
         IN  IF Pessimistic(sentiment_score)
             THEN [d EXCEPT !.risk_warnings = Append(@, "pessimistic market")]
             ELSE IF Optimistic(sentiment_score)
             THEN [d EXCEPT !.reasoning = Append(@, "optimistic market")]
             ELSE d
    ELSE d

\* estimate_max_drawdown_risk raised ZeroDivisionError
RiskRaised == [raised |-> TRUE]

\* lines 1572 and 1574: a support level; the distance divides by the price
SupportLevel(level, current_price, ma) ==
    [level |-> level, price |-> ma,
     distance |-> Round(RMul(RDiv(RSub(current_price, ma), current_price),
                             FromInt(100)), 1)]

\* estimate_max_drawdown_risk (lines 1545-1615), historical_volatility None
estimate_max_drawdown_risk(current_price, m, valuation_percentile) ==
    LET ma20 == Get(m, "ma20", None)
        ma60 == Get(m, "ma60", None)
    IN  IF (Truthy(ma20) \/ Truthy(ma60)) /\ current_price = Zero
        THEN RiskRaised
        ELSE LET support_levels ==
                     (IF Truthy(ma20)
                      THEN <<SupportLevel("MA20", current_price, ma20)>> ELSE <<>>)
                     \o (IF Truthy(ma60)
                         THEN <<SupportLevel("MA60", current_price, ma60)>> ELSE <<>>)
                 by_valuation ==
                     IF valuation_percentile # None
                     THEN IF RGt(valuation_percentile, FromInt(80)) THEN 8
                          ELSE IF RGt(valuation_percentile, FromInt(60)) THEN 4
                          ELSE IF RLt(valuation_percentile, FromInt(30)) THEN -2
                          ELSE 0
                     ELSE 0
                 by_distance ==
                     IF Truthy(ma20) /\ RGt(current_price, ma20)
                     THEN LET distance == RMul(RDiv(RSub(current_price, ma20), ma20),
                                               FromInt(100))
                          IN  IF RGt(distance, FromInt(10)) THEN 5
                              ELSE IF RGt(distance, FromInt(5)) THEN 2
                              ELSE 0
                     ELSE 0
                 base_drawdown == 5 + by_valuation + by_distance
                 risk_level == IF base_drawdown >= 15 THEN "high"
                               ELSE IF base_drawdown >= 8 THEN "medium"
                               ELSE "low"
             IN  [raised |-> FALSE, estimated_drawdown |-> base_drawdown,
                  support_levels |-> support_levels, risk_level |-> risk_level]

\* the decision the function holds in its locals
Locals ==
    Decision(action, action_cn, confidence, context, reasoning, risk_warnings,
             position_advice)

SetLocals(d) ==
    /\ action' = d.action
    /\ action_cn' = d.action_cn
    /\ confidence' = d.confidence
    /\ context' = d.context
    /\ reasoning' = d.reasoning
    /\ risk_warnings' = d.risk_warnings
    /\ position_advice' = d.position_advice

RecFrame ==
    UNCHANGED <<fund_data, current_nav, nav_history, navLocals, result, cacheVars,
                idxVars, pfVars, callVars, billVars, sigVars, recArgs, pctVars, riskVars,
                allVars>>

\* lines 1651-1818: the arguments are classified and the table is applied
RecTable ==
    /\ pc = "recommend"
    /\ SetLocals(DecisionTable(TrendStrength(NetScore(trend_data)),
                               ValuationLevel(ValPercentile(valuation_data)),
                               PositionLevel(PositionWeight(position_data))))
    /\ pc' = "rsi"
    /\ UNCHANGED recommendation
    /\ RecFrame

\* lines 1820-1829
RecRsi ==
    /\ pc = "rsi"
    /\ SetLocals(RsiCorrection(Locals, RsiOf(trend_data)))
    /\ pc' = "sentiment"
    /\ UNCHANGED recommendation
    /\ RecFrame

\* lines 1831-1838
RecSentiment ==
    /\ pc = "sentiment"
    /\ SetLocals(SentimentCorrection(Locals, sentiment_data))
    /\ pc' = "risk"
    /\ UNCHANGED recommendation
    /\ RecFrame

\* lines 1841-1860: the risk estimate, then the return
RecReturn ==
    /\ pc = "risk"
    /\ LET risk_estimate ==
               estimate_max_drawdown_risk(Get(trend_data, "price", Zero),
                                          Get(trend_data, "mas", EmptyDict),
                                          ValPercentile(valuation_data))
       IN  IF risk_estimate.raised
           THEN /\ pc' = "raised"
                /\ UNCHANGED recommendation
           ELSE /\ pc' = "recommended"
                /\ recommendation' =
                       [action |-> action, action_cn |-> action_cn,
                        confidence |-> confidence, context |-> context,
                        reasoning |-> reasoning, risk_warning |-> risk_warnings,
                        position_advice |-> position_advice,
                        metrics |-> [estimated_drawdown |-> risk_estimate.estimated_drawdown,
                                     risk_level |-> risk_estimate.risk_level]]
    /\ UNCHANGED recLocals
    /\ RecFrame

RecNext == RecTable \/ RecRsi \/ RecSentiment \/ RecReturn

\* line 1998: what generate_all_recommendations passes for an index that is
\* held but has no trend data
NoTrend == [trend |-> EmptyDict, smart_signal |-> EmptyDict]

\* what analyze_index_trend returns (lines 662-674) for a price, the averages
\* of the history and an RSI: without a usable price the smart signal is
\* UnknownSignal, which has no scores
Snapshot(p, m, net_score, r) ==
    [price |-> p, mas |-> m, rsi |-> [rsi |-> r],
     smart_signal |-> IF Truthy(p)
                      THEN [action |-> SignalAction(net_score),
                            confidence |-> SignalConfidence(net_score),
                            reasons |-> <<>>,
                            scores |-> [buy_score |-> Max(net_score, 0),
                                        sell_score |-> Max(-net_score, 0),
                                        net_score |-> net_score]]
                      ELSE UnknownSignal]

RecPrices == {Zero, FromInt(110)}
RecMas == [ma20 : {None, FromInt(100)}, ma60 : {None, FromInt(100)}]
RecNetScores == {-1, 0, 2, 3}
RecRsis == {None} \cup {FromInt(x) : x \in {20, 75, 80}}
TrendSnapshots ==
    {NoTrend} \cup {Snapshot(p, m, n, r) : p \in RecPrices, m \in RecMas,
                                          n \in RecNetScores, r \in RecRsis}
Percentiles == {None} \cup {FromInt(x) : x \in {20, 40, 100}}
Valuations == {None} \cup [pe_percentile : Percentiles, pb_percentile : Percentiles]
Positions == {None} \cup {[weight |-> FromInt(x)] : x \in {0, 10, 15, 30}}
Sentiments ==
    {None} \cup {[summary |-> [score |-> FromInt(x)]] : x \in {-40, -30, 0, 30, 40}}

InitRecommend ==
    /\ pc = "recommend"
    /\ RestIdle
    /\ SigIdle
    /\ trend_data \in TrendSnapshots
    /\ valuation_data \in Valuations
    /\ position_data \in Positions
    /\ sentiment_data \in Sentiments
    /\ action = ""
    /\ action_cn = ""
    /\ confidence = 0
    /\ context = ""
    /\ reasoning = <<>>
    /\ risk_warnings = <<>>
    /\ position_advice = ""
    /\ recommendation = None
    /\ PctIdle
    /\ RiskIdle
    /\ AllIdle

SpecRecommend == InitRecommend /\ [][RecNext]_vars

\* ------------------------------------------------------------------------
\* Properties of the contextual recommendation
\* ------------------------------------------------------------------------
InSeq(x, s) == \E i \in 1..Len(s) : s[i] = x

\* s with exactly one element added at its end
OneAppended(s, t) == Len(t) = Len(s) + 1 /\ SubSeq(t, 1, Len(s)) = s

\* the classes of the arguments, by the thresholds of the specification
TrendClass ==
    LET net == NetScore(trend_data)
    IN  IF net >= 3 THEN "strong" ELSE IF net >= 0 THEN "medium" ELSE "weak"

ValuationClass ==
    LET pct == ValPercentile(valuation_data)
    IN  IF pct = None THEN "unknown"
        ELSE IF RLeq(pct, FromInt(30)) THEN "low"
        ELSE IF RLeq(FromInt(70), pct) THEN "high"
        ELSE "medium"

PositionClass ==
    LET w == PositionWeight(position_data)
    IN  IF RLeq(FromInt(30), w) THEN "heavy"
        ELSE IF RLeq(FromInt(15), w) THEN "medium"
        ELSE IF RLt(Zero, w) THEN "light"
        ELSE "empty"

LightOrEmpty == {"light", "empty"}
HeavyOrMedium == {"heavy", "medium"}

\* the rows of the table of the specification; everything else is "hold"
TableRows ==
    {<<"strong", "low", p, "strong_buy">> : p \in LightOrEmpty}
    \cup {<<"strong", "low", "heavy", "hold">>}
    \cup {<<"strong", "high", p, "take_profit">> : p \in HeavyOrMedium}
    \cup {<<"strong", "high", p, "small_position">> : p \in LightOrEmpty}
    \cup {<<"weak", "low", p, "accumulate">> : p \in LightOrEmpty \cup HeavyOrMedium}
    \cup {<<"weak", "high", p, "reduce">> : p \in HeavyOrMedium}
    \cup {<<"weak", "high", p, "wait">> : p \in LightOrEmpty}
    \cup {<<"medium", "low", p, "buy_dip">> : p \in LightOrEmpty}
    \cup {<<"medium", "high", p, "trim">> : p \in HeavyOrMedium}

RowsFor(t, v, p) == {r \in TableRows : r[1] = t /\ r[2] = v /\ r[3] = p}

TableAction(t, v, p) ==
    IF RowsFor(t, v, p) = {} THEN "hold"
    ELSE (CHOOSE r \in RowsFor(t, v, p) : TRUE)[4]

\* C16: once the table has been applied and before the RSI and sentiment
\* corrections, the action is the one the specification's table gives for the
\* trend, valuation and position classes of the arguments: the one row that
\* matches them, and "hold" when no row does (unknown valuation included).
C16_DecisionTable ==
    pc = "rsi" =>
        /\ Cardinality(RowsFor(TrendClass, ValuationClass, PositionClass)) <= 1
        /\ action = TableAction(TrendClass, ValuationClass, PositionClass)

\* a sideways trend (net score 2), the percentile exactly 30 and a light
\* position: buy_dip
C16_Witness ==
    /\ pc = "rsi"
    /\ NetScore(trend_data) = 2
    /\ ValPercentile(valuation_data) = FromInt(30)
    /\ PositionClass = "light"
    /\ action = "buy_dip"

\* the actions that advise buying now
BuyType == {"strong_buy", "buy_dip"}

RsiAbove75 ==
    RsiOf(trend_data) # None /\ RLt(FromInt(75), RsiOf(trend_data))

SentimentScore ==
    IF sentiment_data = None THEN None ELSE sentiment_data.summary.score

\* C18: the sentiment step leaves action, confidence and position advice as
\* they were; a score below -30 appends one warning and nothing to the
\* reasoning, a score above 30 appends one note to the reasoning and no
\* warning, and a score in [-30, 30] or no sentiment data appends nothing.
C18_SentimentAppendOnly ==
    [][(pc = "sentiment" /\ pc' = "risk") =>
           /\ action' = action
           /\ confidence' = confidence
           /\ position_advice' = position_advice
           /\ IF SentimentScore # None /\ RLt(SentimentScore, FromInt(-30))
              THEN /\ OneAppended(risk_warnings, risk_warnings')
                   /\ reasoning' = reasoning
              ELSE IF SentimentScore # None /\ RLt(FromInt(30), SentimentScore)
              THEN /\ OneAppended(reasoning, reasoning')
                   /\ risk_warnings' = risk_warnings
              ELSE /\ reasoning' = reasoning
                   /\ risk_warnings' = risk_warnings
      ]_vars

\* a score of -40 after an RSI downgrade: the warning is the last one and the
\* action is still wait
C18_Witness ==
    /\ pc = "risk"
    /\ SentimentScore = FromInt(-40)
    /\ action = "wait"
    /\ Len(risk_warnings) = 2
    /\ risk_warnings[2] = "pessimistic market"

\* C19: generate_contextual_recommendation never ends in an exception.
C19_NoException == pc # "raised"

\* ------------------------------------------------------------------------
\* The percentile of a value in its history (technical.py, lines 1067-1088)
\* ------------------------------------------------------------------------
MaxHist == 3                      \* values in a history

\* float('nan'): every comparison with it is false
NaN == <<0, 0>>

\* line 1081: what the filter keeps
Kept(x) == x # None /\ x # NaN

RECURSIVE Filter(_)
Filter(h) ==
    IF h = <<>> THEN <<>>
    ELSE IF Kept(Head(h)) THEN <<Head(h)>> \o Filter(Tail(h))
    ELSE Filter(Tail(h))

\* mutant: a value equal to the current one counts as below it
BelowOrEqual(x, cur) == cur # NaN /\ RLeq(x, cur)

\* line 1085: x < current
Below(x, cur) == cur # NaN /\ RLt(x, cur)

RECURSIVE CountBelow(_, _)
CountBelow(h, cur) ==
    IF h = <<>> THEN 0
    ELSE (IF Below(Head(h), cur) THEN 1 ELSE 0) + CountBelow(Tail(h), cur)

\* calculate_percentile
calculate_percentile(cur, h) ==
    IF h = <<>> \/ cur = None THEN None
    ELSE LET kept == Filter(h)
         IN  IF kept = <<>> THEN None
             ELSE LET count_below == CountBelow(kept, cur)
                      pct == RMul(Rat(count_below, Len(kept)), FromInt(100))
                  IN  Round(pct, 1)

\* a call of calculate_percentile
CalculatePercentile ==
    /\ pc = "percentile"
    /\ percentile' = calculate_percentile(current, history)
    /\ pc' = "ranked"
    /\ UNCHANGED <<fund_data, current_nav, nav_history, navLocals, result, cacheVars,
                   idxVars, pfVars, callVars, billVars, sigVars, recVars, current, history,
                   riskVars, allVars>>

PctNext == CalculatePercentile

\* PE or PB values, with the holes a provider leaves in a series
HistoryValues == {None, NaN} \cup {FromInt(x) : x \in {10, 20, 30}}
CurrentValues == {None, NaN} \cup {FromInt(x) : x \in {5, 10, 20, 30, 40}}
Histories == UNION {[1..n -> HistoryValues] : n \in 0..MaxHist}

InitPercentile ==
    /\ pc = "percentile"
    /\ RestIdle
    /\ SigIdle
    /\ RecIdle
    /\ RiskIdle
    /\ AllIdle
    /\ current \in CurrentValues
    /\ history \in Histories
    /\ percentile = None

SpecPercentile == InitPercentile /\ [][PctNext]_vars

\* ------------------------------------------------------------------------
\* Properties of the percentile
\* ------------------------------------------------------------------------
\* the positions of the history that hold a number
UsableAt == {i \in 1..Len(history) : history[i] # None /\ history[i] # NaN}

\* those of them whose value is strictly less than the current one
BelowAt == {i \in UsableAt : current # None /\ current # NaN /\ RLt(history[i], current)}

\* count below / count * 100
Quotient == Rat(100 * Cardinality(BelowAt), Cardinality(UsableAt))

\* the current value is the maximum of the usable values, which are distinct
CurrentIsMaxOfDistinct ==
    /\ current # None /\ current # NaN
    /\ \E i \in UsableAt : history[i] = current
    /\ \A i \in UsableAt : RLeq(history[i], current)
    /\ \A i, j \in UsableAt : history[i] = history[j] => i = j

\* C20 as stated: the result is null iff the current value is null or no
\* history value is usable, and otherwise it is exactly
\* count below / count * 100, counting strictly smaller values only.
C20_ExactQuotient ==
    pc = "ranked" =>
        /\ percentile = None <=> (current = None \/ UsableAt = {})
        /\ percentile # None => percentile = Quotient

\* C20 amended: the result is null iff the current value is null or no history
\* value is usable; otherwise it is count below / count * 100 rounded to one
\* decimal, counting strictly smaller values only; for the maximum of n
\* distinct values that is round(100 * (n - 1) / n, 1), which is not 100 while
\* n is below 2000 (from there on the rounding reaches 100.0).
C20_RoundedQuotient ==
    pc = "ranked" =>
        /\ percentile = None <=> (current = None \/ UsableAt = {})
        /\ percentile # None => percentile = Round(Quotient, 1)
        /\ CurrentIsMaxOfDistinct =>
               /\ percentile = Round(Rat(100 * (Cardinality(UsableAt) - 1),
                                          Cardinality(UsableAt)), 1)
               /\ Cardinality(UsableAt) < 2000 => percentile # FromInt(100)

\* 30 in the history 10, 20, 30: two of three are below, 66.7
C20_Witness ==
    /\ pc = "ranked"
    /\ current = FromInt(30)
    /\ history = <<FromInt(10), FromInt(20), FromInt(30)>>
    /\ percentile = Rat(667, 10)

\* C29: the RSI step never touches confidence, context or position advice;
\* when RSI > 75 meets strong_buy or buy_dip it sets the action to wait,
\* replaces action_cn and appends one entry to the reasoning and one to the
\* warnings; for every other action it leaves action and action_cn alone and
\* at most appends one text; what is returned carries the table's confidence,
\* context and position advice.
C29_RsiFrame ==
    [][/\ (pc = "rsi" /\ pc' = "sentiment") =>
              /\ confidence' = confidence
              /\ context' = context
              /\ position_advice' = position_advice
              /\ IF RsiAbove75 /\ action \in BuyType
                 THEN /\ action' = "wait"
                      /\ action_cn' # action_cn
                      /\ OneAppended(reasoning, reasoning')
                      /\ OneAppended(risk_warnings, risk_warnings')
                 ELSE /\ action' = action
                      /\ action_cn' = action_cn
                      /\ \/ reasoning' = reasoning /\ risk_warnings' = risk_warnings
                         \/ reasoning' = reasoning
                            /\ OneAppended(risk_warnings, risk_warnings')
                         \/ risk_warnings' = risk_warnings
                            /\ OneAppended(reasoning, reasoning')
       /\ pc' = "recommended" =>
              LET d == DecisionTable(TrendClass, ValuationClass, PositionClass)
              IN  /\ recommendation'.confidence = d.confidence
                  /\ recommendation'.context = d.context
                  /\ recommendation'.position_advice = d.position_advice
      ]_vars

\* a wait returned with confidence 5 and the advice of the strong_buy branch
C29_Witness ==
    /\ pc = "recommended"
    /\ RsiAbove75
    /\ recommendation.action = "wait"
    /\ recommendation.action_cn = "wait for the pullback"
    /\ recommendation.confidence = 5
    /\ recommendation.context = "golden entry"
    /\ recommendation.position_advice = "build the position in 2-3 steps"

\* C27: whenever generate_smart_signal scored a positive price against
\* averages that are positive where present, the returned sell_score is not
\* negative.
C27_SellScoreNotNegative ==
    (Scored /\ RPos(price)
       /\ \A k \in DOMAIN mas : mas[k] = None \/ RPos(mas[k]))
    => smart_signal.scores.sell_score >= 0

\* the bull pullback took its point back from the MA10 rule: sell_score 0
C27_Witness ==
    /\ Scored
    /\ BullPullback
    /\ RuleMa10 = <<0, 1>>
    /\ smart_signal.scores.sell_score = 0

\* C23: every valuation calculate_portfolio_valuation collected for a
\* position carries calc_method, and it is "nav" or "index".
C23_CalcMethodCarried ==
    \A i \in 1..Len(results) :
        /\ "calc_method" \in DOMAIN results[i]
        /\ results[i].calc_method \in {"nav", "index"}

RAbs(x) == <<Abs(x[1]), x[2]>>

\* C24: when every buy of the position was confirmed, the returned
\* total_shares times the returned avg_cost is the confirmed cost within a
\* relative tolerance of 1e-6.
C24_SharesTimesAvgCost ==
    (LoopDone /\ result # None /\ SumUnconfirmed(Txs, nav_history) = Zero)
    => RLeq(RAbs(RSub(RMul(result.total_shares, result.avg_cost), total_cost)),
            RDiv(total_cost, FromInt(1000000)))

RECURSIVE SumProfit(_)
SumProfit(funds) ==
    IF funds = <<>> THEN Zero ELSE RAdd(funds[1].profit, SumProfit(Tail(funds)))

\* C28: in what calculate_portfolio_valuation returns, every fund has
\* profit = market_value - total_invested, and summary.total_profit is the
\* sum of the funds' profit figures.
C28_ProfitConsistent ==
    (pc = "pf_done" /\ "funds" \in DOMAIN ret) =>
        /\ \A i \in 1..Len(ret.funds) :
               ret.funds[i].profit =
                   RSub(ret.funds[i].market_value, ret.funds[i].total_invested)
        /\ ret.summary.total_profit = SumProfit(ret.funds)

\* ------------------------------------------------------------------------
\* The maximum drawdown of a NAV series (technical.py, lines 1189-1222)
\* ------------------------------------------------------------------------
MaxSeries == 4                    \* points in a NAV series

RMax(x, y) == IF RLt(x, y) THEN y ELSE x

\* line 1208: nav_series.cummax()
RECURSIVE CumMax(_)
CumMax(s) ==
    IF Len(s) <= 1 THEN s
    ELSE LET before == CumMax(SubSeq(s, 1, Len(s) - 1))
         IN  Append(before, RMax(before[Len(before)], s[Len(s)]))

\* mutant: the fall is measured against the value itself
DrawdownOfValue(s) ==
    LET cummax == CumMax(s)
    IN  [i \in 1..Len(s) |-> RDiv(RSub(s[i], cummax[i]), s[i])]

\* line 1210: (nav_series - cummax) / cummax
DrawdownOf(s) ==
    LET cummax == CumMax(s)
    IN  [i \in 1..Len(s) |-> RDiv(RSub(s[i], cummax[i]), cummax[i])]

\* line 1214: idxmin, the first position of the least value
IdxMin(s) ==
    CHOOSE i \in 1..Len(s) :
        /\ \A j \in 1..Len(s) : RLeq(s[i], s[j])
        /\ \A j \in 1..(i - 1) : s[j] # s[i]

\* line 1217: idxmax, the first position of the greatest value
IdxMax(s) ==
    CHOOSE i \in 1..Len(s) :
        /\ \A j \in 1..Len(s) : RLeq(s[j], s[i])
        /\ \A j \in 1..(i - 1) : s[j] # s[i]

\* calculate_max_drawdown; the series is indexed by date, so the slice
\* nav_series[:trough_idx] takes the rows up to and including the trough; the
\* peak and the trough are given as positions in the series
calculate_max_drawdown(s) ==
    IF Len(s) < 2 THEN [max_drawdown |-> None]
    ELSE LET dd == DrawdownOf(s)
             trough_idx == IdxMin(dd)
             peak_idx == IdxMax(SubSeq(s, 1, trough_idx))
         IN  [max_drawdown |-> Round(RMul(dd[trough_idx], FromInt(100)), 2),
              peak_date |-> peak_idx,
              trough_date |-> trough_idx]

\* a call of calculate_max_drawdown
CalculateMaxDrawdown ==
    /\ pc = "drawdown"
    /\ drawdown' = calculate_max_drawdown(nav_series)
    /\ pc' = "drawn"
    /\ UNCHANGED <<fund_data, current_nav, nav_history, navLocals, result, cacheVars,
                   idxVars, pfVars, callVars, billVars, sigVars, recVars, pctVars, nav_series,
                   prVars, allVars>>

DdNext == CalculateMaxDrawdown

\* unit NAVs around 1
SeriesValues == Tenths({9, 10, 11, 12})
SeriesOfNavs == UNION {[1..n -> SeriesValues] : n \in 0..MaxSeries}

InitDrawdown ==
    /\ pc = "drawdown"
    /\ RestIdle
    /\ SigIdle
    /\ RecIdle
    /\ PctIdle
    /\ nav_series \in SeriesOfNavs
    /\ drawdown = None
    /\ PrIdle
    /\ AllIdle

SpecDrawdown == InitDrawdown /\ [][DdNext]_vars

\* ------------------------------------------------------------------------
\* Properties of the maximum drawdown
\* ------------------------------------------------------------------------
\* the greatest value at or before position i
RunningMax(i) ==
    CHOOSE m \in {nav_series[j] : j \in 1..i} :
        \A j \in 1..i : RLeq(nav_series[j], m)

\* (value - running maximum) / running maximum at position i
FallAt(i) == RDiv(RSub(nav_series[i], RunningMax(i)), RunningMax(i))

\* the least of them
DeepestFall ==
    CHOOSE f \in {FallAt(i) : i \in 1..Len(nav_series)} :
        \A i \in 1..Len(nav_series) : RLeq(f, FallAt(i))

\* where the trough and the peak lie
TroughAndPeak ==
    /\ drawdown.trough_date \in 1..Len(nav_series)
    /\ FallAt(drawdown.trough_date) = DeepestFall
    /\ drawdown.peak_date \in 1..drawdown.trough_date
    /\ \A j \in 1..drawdown.trough_date :
           RLeq(nav_series[j], nav_series[drawdown.peak_date])

\* C21 as stated: for a series of at least 2 points the returned max_drawdown
\* is the least (value - running maximum) / running maximum as a percentage,
\* it is <= 0, the trough attains it and the peak is the greatest value at or
\* before the trough.
C21_DrawdownExact ==
    (pc = "drawn" /\ Len(nav_series) >= 2) =>
        /\ drawdown.max_drawdown = RMul(DeepestFall, FromInt(100))
        /\ RLeq(drawdown.max_drawdown, Zero)
        /\ TroughAndPeak

\* C21 amended: as stated, with the percentage rounded to two decimals.
C21_DrawdownRounded ==
    (pc = "drawn" /\ Len(nav_series) >= 2) =>
        /\ drawdown.max_drawdown = Round(RMul(DeepestFall, FromInt(100)), 2)
        /\ RLeq(drawdown.max_drawdown, Zero)
        /\ TroughAndPeak

\* the series 1.0, 1.2, 0.9, 1.1: -25.0 %, peak at the second point, trough
\* at the third
C21_Witness ==
    /\ pc = "drawn"
    /\ nav_series = <<FromInt(1), Rat(12, 10), Rat(9, 10), Rat(11, 10)>>
    /\ drawdown.max_drawdown = FromInt(-25)
    /\ drawdown.peak_date = 2
    /\ drawdown.trough_date = 3

\* ------------------------------------------------------------------------
\* The portfolio built from an Alipay bill (portfolio.py, lines 206-323)
\* ------------------------------------------------------------------------
MaxRecords == 3                   \* investment rows in the bill

FundNames == {"fund A", "fund B"}
BuyActions == {"buy", "auto-invest"}
SellActions == {"sell", "redeem"}
BillAmounts == {110, 220, 330}    \* the amounts 1.10, 2.20, 3.30 in cents

\* A float near a whole number of cents is <<c, k>>: the k-th double above
\* (below, for k < 0) the double nearest to c / 100.
FloatOf(c) == <<c, 0>>

\* binary64 addition of an amount a to <<c, k>>: the sum is near c + a cents;
\* the entries <<c, k, a, k2>> say where it lands k2 doubles off the nearest
\* one (1.1 + 2.2 = 3.3000000000000003), everywhere else it lands on it
SumOffNearest ==
    {<<110, 0, 220, 1>>, <<220, 0, 110, 1>>, <<440, 0, 220, 1>>,
     <<660, 0, 110, -1>>, <<660, 0, 330, -1>>, <<660, 1, 110, 1>>,
     <<770, -1, 110, -1>>, <<770, -1, 220, -1>>, <<770, 1, 220, 1>>,
     <<880, -1, 110, -1>>, <<880, -1, 330, -1>>, <<880, 0, 330, 1>>,
     <<990, -1, 110, -1>>, <<990, -1, 220, -1>>, <<990, 0, 220, 1>>,
     <<990, 1, 110, 1>>, <<990, 1, 220, 1>>, <<990, 1, 330, 2>>,
     <<1100, -1, 110, -1>>, <<1100, -1, 330, -2>>, <<1210, -1, 110, -1>>,
     <<1210, -1, 220, -2>>, <<1210, -1, 330, -1>>, <<1210, 0, 330, -1>>,
     <<1210, 1, 110, 1>>, <<1210, 1, 330, 1>>, <<1320, -1, 110, -2>>,
     <<1320, -1, 220, -1>>, <<1320, -1, 330, -1>>, <<1320, 0, 110, -1>>,
     <<1320, 0, 220, -1>>, <<1320, 1, 220, 1>>, <<1430, -2, 110, -2>>,
     <<1430, -2, 220, -1>>, <<1430, -2, 330, -1>>, <<1430, -1, 110, -1>>,
     <<1430, -1, 330, -1>>, <<1540, -1, 220, -1>>, <<1540, 1, 110, 1>>,
     <<1540, 1, 330, 1>>}

\* x += amount
FloatAdd(x, a) ==
    LET off == {t \in SumOffNearest : t[1] = x[1] /\ t[2] = x[2] /\ t[3] = a}
    IN  <<x[1] + a, IF off = {} THEN 0 ELSE (CHOOSE t \in off : TRUE)[4]>>

\* x - y > 0
FloatGreater(x, y) == x[1] > y[1] \/ (x[1] = y[1] /\ x[2] > y[2])

\* round(x, 2), in cents
Round2(x) == x[1]

\* lines 212-216: the entry of a fund not seen yet
NoFund == [buy |-> FloatOf(0), sell |-> FloatOf(0), transactions |-> <<>>]

\* lines 218-247: one record
AggregateRecord(funds, record) ==
    LET old == IF record.fund_name \in DOMAIN funds
               THEN funds[record.fund_name] ELSE NoFund
        new == [buy |-> IF record.action \in BuyActions
                        THEN FloatAdd(old.buy, record.amount) ELSE old.buy,
                sell |-> IF record.action \in SellActions
                         THEN FloatAdd(old.sell, record.amount) ELSE old.sell,
                transactions |->
                    Append(old.transactions,
                           [date |-> record.date, action |-> record.action,
                            amount |-> record.amount])]
    IN  (record.fund_name :> new) @@ funds

\* aggregate_transactions
RECURSIVE aggregate_transactions(_, _)
aggregate_transactions(funds, recs) ==
    IF recs = <<>> THEN funds
    ELSE aggregate_transactions(AggregateRecord(funds, Head(recs)), Tail(recs))

\* lines 301-305: a fund is kept unless net_invested <= 0
StillHeld(data) == FloatGreater(data.buy, data.sell)

\* lines 311-325: the stored position, its amounts in cents
StoredPosition(fund_name, data, fund_code) ==
    [code |-> fund_code,
     name |-> fund_name,
     total_invested |-> Round2(data.buy),
     total_redeemed |-> Round2(data.sell),
     net_invested |-> Round2(data.buy) - Round2(data.sell),
     transaction_count |-> Len(data.transactions),
     buy_transactions |->
         SelectSeq(data.transactions,
                   LAMBDA tx : tx.action \in BuyActions /\ tx.amount > 0)]

RECURSIVE SumField(_, _, _)
SumField(agg, names, field) ==
    IF names = {} THEN 0
    ELSE LET n == CHOOSE m \in names : TRUE
         IN  Round2(agg[n][field]) + SumField(agg, names \ {n}, field)

\* lines 285-338: the portfolio built from the aggregated transactions; the
\* totals are sums of amounts near whole cents and are rounded to cents
BuildPortfolio(agg, codes) ==
    LET kept == {n \in DOMAIN agg : StillHeld(agg[n])}
        invested == SumField(agg, kept, "buy")
        redeemed == SumField(agg, kept, "sell")
    IN  [funds |-> [n \in kept |-> StoredPosition(n, agg[n], codes[n])],
         summary |-> [total_invested |-> invested,
                      total_redeemed |-> redeemed,
                      fund_count |-> Cardinality(kept),
                      net_invested |-> invested - redeemed]]

BillFrame ==
    UNCHANGED <<fund_data, current_nav, nav_history, navLocals, result, cacheVars,
                idxVars, pfVars, callVars, techVars, records, found_codes>>

\* line 292
BillAggregate ==
    /\ pc = "bill"
    /\ aggregated' = aggregate_transactions(EmptyDict, records)
    /\ pc' = "aggregated"
    /\ UNCHANGED alipay_portfolio
    /\ BillFrame

\* lines 295-338
BillBuild ==
    /\ pc = "aggregated"
    /\ alipay_portfolio' = BuildPortfolio(aggregated, found_codes)
    /\ pc' = "built"
    /\ UNCHANGED aggregated
    /\ BillFrame

BillNext == BillAggregate \/ BillBuild

\* the investment rows of a bill: buys, redemptions and dividends of two funds
BillRows ==
    [fund_name : FundNames, action : {"buy", "redeem", "dividend"},
     amount : BillAmounts, date : {1}]
Bills == UNION {[1..n -> BillRows] : n \in 0..MaxRecords}

InitBill ==
    /\ pc = "bill"
    /\ fund_data = [code |-> NoCode, net_invested |-> 0, buy_transactions |-> <<>>]
    /\ current_nav = None
    /\ nav_history = <<>>
    /\ tx_idx = 0
    /\ total_shares = Zero
    /\ total_cost = Zero
    /\ uncalculated_amount = Zero
    /\ tx_time = None
    /\ confirm_date = None
    /\ buy_nav = None
    /\ result = None
    /\ fund_nav_cache = EmptyDict
    /\ index_history_cache = EmptyDict
    /\ IdxIdle
    /\ PfIdle
    /\ CallIdle
    /\ TechIdle
    /\ records \in Bills
    /\ found_codes \in {[n \in FundNames |-> c] : c \in {NoCode, FundCode}}
    /\ aggregated = EmptyDict
    /\ alipay_portfolio = None

SpecBill == InitBill /\ [][BillNext]_vars

\* ------------------------------------------------------------------------
\* Properties of the built portfolio
\* ------------------------------------------------------------------------
\* what the bill says a fund bought and redeemed, in cents
RECURSIVE BillTotal(_, _, _)
BillTotal(recs, name, actions) ==
    IF recs = <<>> THEN 0
    ELSE (IF recs[1].fund_name = name /\ recs[1].action \in actions
          THEN recs[1].amount ELSE 0)
         + BillTotal(Tail(recs), name, actions)

\* C22: every stored position has net_invested = total_invested -
\* total_redeemed and net_invested > 0, a fund whose redemptions reach its
\* buys is not stored, fund_count is the number of stored positions and the
\* summary's net_invested is its total_invested minus its total_redeemed.
C22_PositionInvariant ==
    pc = "built" =>
        /\ \A n \in DOMAIN alipay_portfolio.funds :
               LET f == alipay_portfolio.funds[n]
               IN  /\ f.net_invested = f.total_invested - f.total_redeemed
                   /\ f.net_invested > 0
        /\ \A n \in FundNames :
               BillTotal(records, n, SellActions) >= BillTotal(records, n, BuyActions)
               => n \notin DOMAIN alipay_portfolio.funds
        /\ alipay_portfolio.summary.fund_count =
               Cardinality(DOMAIN alipay_portfolio.funds)
        /\ alipay_portfolio.summary.net_invested =
               alipay_portfolio.summary.total_invested
               - alipay_portfolio.summary.total_redeemed

\* ------------------------------------------------------------ portfolio risk
\* the root of a perfect square, rounded down otherwise
Isqrt(n) == CHOOSE k \in 0..n : k * k <= n /\ n < (k + 1) * (k + 1)

\* the square root of a square of a rational (every variance of the series
\* below, annualised, is one)
RSqrt(x) == <<Isqrt(x[1]), Isqrt(x[2])>>

RECURSIVE RSum(_)
RSum(s) == IF s = <<>> THEN Zero ELSE RAdd(s[1], RSum(Tail(s)))

\* df.tail(days)
TailRows(df, days) ==
    IF Len(df) <= days THEN df ELSE SubSeq(df, Len(df) - days + 1, Len(df))

\* nav_series.pct_change().dropna()
PctChange(s) ==
    [k \in 1..(Len(s) - 1) |-> RSub(RDiv(s[k + 1], s[k]), FromInt(1))]

\* returns.std(): the sample standard deviation, squared
Variance(returns) ==
    LET n == Len(returns)
        mean == RDiv(RSum(returns), FromInt(n))
        sq == [k \in 1..n |-> RMul(RSub(returns[k], mean), RSub(returns[k], mean))]
    IN  RDiv(RSum(sq), FromInt(n - 1))

\* calculate_volatility(returns, annualize=True)
calculate_volatility(returns) ==
    IF Len(returns) < 2 THEN None
    ELSE LET std == RSqrt(RMul(Variance(returns), FromInt(252)))
         IN  Round(RMul(std, FromInt(100)), 2)

\* line 1269: df.empty or len(df) < days // 2
TooShort(df, days) == df = <<>> \/ Len(df) < days \div 2

\* analyze_fund_risk(fund_code, fund_name, days), given what the provider
\* would answer: what it returns and the cache after
analyze_fund_risk(cache, fund_code, fund_name, days, fetched) ==
    LET got == get_fund_nav_history(cache, fund_code, days + 30, fetched)
        df == got.ret
        window == TailRows(df, days)
        navs == [k \in 1..Len(window) |-> Rat(window[k].nav, 100)]
        returns == PctChange(navs)
        dd == calculate_max_drawdown(navs)
        volatility == calculate_volatility(returns)
        figures == [code |-> fund_code, name |-> fund_name,
                    max_drawdown |-> dd.max_drawdown, volatility |-> volatility]
    IN  IF TooShort(df, days)
        THEN [ret |-> [code |-> fund_code, name |-> fund_name,
                       error |-> "insufficient data"],
              cache |-> got.cache]
        ELSE [ret |-> IF "peak_date" \in DOMAIN dd /\ "trough_date" \in DOMAIN dd
                      THEN [drawdown_period |-> <<dd.peak_date, dd.trough_date>>]
                           @@ figures
                      ELSE figures,
              cache |-> got.cache]

RiskFrame == UNCHANGED <<fund_data, current_nav, nav_history, navLocals, result,
                         index_history_cache, idxVars, pfVars, callVars, billVars,
                         sigVars, recVars, pctVars, ddVars, portfolio_data, risk_days,
                         allVars>>

\* lines 1321-1331: an empty portfolio is an error, else the loop starts
RiskStart ==
    /\ pc = "portfolio_risk"
    /\ IF Get(portfolio_data, "funds", <<>>) = <<>>
       THEN /\ risk_report' = [error |-> "empty portfolio"]
            /\ pc' = "risk_done"
       ELSE /\ pc' = "risk_loop"
            /\ UNCHANGED risk_report
    /\ UNCHANGED <<fund_nav_cache, risk_i, risk_results, total_drawdown,
                   total_volatility, valid_count, max_drawdown, max_drawdown_fund>>
    /\ RiskFrame

\* lines 1333-1354: one pass of the loop over the funds
RiskFund ==
    /\ pc = "risk_loop"
    /\ risk_i < Len(portfolio_data.funds)
    /\ risk_i' = risk_i + 1
    /\ LET fund == portfolio_data.funds[risk_i + 1]
           code == fund.code
           name == fund.name
       IN  IF code = NoCode
           THEN UNCHANGED <<fund_nav_cache, risk_results, total_drawdown,
                            total_volatility, valid_count, max_drawdown,
                            max_drawdown_fund>>
           ELSE LET got == analyze_fund_risk(fund_nav_cache, code, name, risk_days,
                                             provider.nav_rows[code])
                    analysis == got.ret
                    dd == Get(analysis, "max_drawdown", None)
                    vol == Get(analysis, "volatility", None)
                    deeper == dd # None /\ RGt(RAbs(dd), RAbs(max_drawdown))
                IN  /\ fund_nav_cache' = got.cache
                    /\ risk_results' = Append(risk_results, analysis)
                    /\ total_drawdown' = IF dd # None
                                         THEN RAdd(total_drawdown, RAbs(dd))
                                         ELSE total_drawdown
                    /\ valid_count' = IF dd # None THEN valid_count + 1
                                      ELSE valid_count
                    /\ max_drawdown' = IF deeper THEN dd ELSE max_drawdown
                    /\ max_drawdown_fund' = IF deeper THEN <<name>>
                                            ELSE max_drawdown_fund
                    /\ total_volatility' = IF vol # None
                                           THEN RAdd(total_volatility, vol)
                                           ELSE total_volatility
    /\ UNCHANGED <<pc, risk_report>>
    /\ RiskFrame

\* if max_drawdown_fund: neither None nor an empty name
Named(fund) == fund # None /\ fund[1] # ""

\* lines 1356-1367: the summary and the return
RiskReturn ==
    /\ pc = "risk_loop"
    /\ risk_i = Len(portfolio_data.funds)
    /\ LET averages == IF valid_count > 0
                       THEN [avg_drawdown |->
                                 Round(RDiv(total_drawdown, FromInt(valid_count)), 2),
                             avg_volatility |->
                                 Round(RDiv(total_volatility, FromInt(valid_count)), 2)]
                       ELSE EmptyDict
           deepest == IF Named(max_drawdown_fund)
                      THEN [max_drawdown_fund |-> max_drawdown_fund[1],
                            max_drawdown |-> max_drawdown]
                      ELSE EmptyDict
       IN  risk_report' = [funds |-> risk_results, summary |-> deepest @@ averages]
    /\ pc' = "risk_done"
    /\ UNCHANGED <<fund_nav_cache, risk_i, risk_results, total_drawdown,
                   total_volatility, valid_count, max_drawdown, max_drawdown_fund>>
    /\ RiskFrame

RiskNext == RiskStart \/ RiskFund \/ RiskReturn

\* the funds of a portfolio: one without a code, and the two funds
RiskFunds == {[code |-> NoCode, name |-> "fund A"],
              [code |-> FundCode, name |-> "fund A"],
              [code |-> QdiiCode, name |-> "fund B"]}

\* the portfolios: none, or up to MaxFunds funds
RiskPortfolios ==
    {EmptyDict} \cup
    {[funds |-> fs] : fs \in UNION {[1..n -> RiskFunds] : n \in 0..MaxFunds}}

\* the windows asked for
RiskDays == {4, 8}

\* the NAV of the last Len(navs) days
RowsOfNavs(navs) ==
    [k \in 1..Len(navs) |-> [date |-> Today - Len(navs) + k, nav |-> navs[k]]]

\* what the provider can hold for a fund: nothing, one NAV, two rising, two
\* falling, four equal, and four NAVs with the daily returns 10%, 20%, -30%
RiskAnswers ==
    {Raise} \cup
    {Answer(RowsOfNavs(navs)) :
        navs \in {<<100>>, <<100, 110>>, <<110, 100>>, <<100, 100, 100, 100>>,
                  <<1000, 1100, 1320, 924>>}}

InitRisk ==
    /\ pc = "portfolio_risk"
    /\ fund_data = [code |-> NoCode, net_invested |-> 0, buy_transactions |-> <<>>]
    /\ current_nav = None
    /\ nav_history = <<>>
    /\ tx_idx = 0
    /\ total_shares = Zero
    /\ total_cost = Zero
    /\ uncalculated_amount = Zero
    /\ tx_time = None
    /\ confirm_date = None
    /\ buy_nav = None
    /\ result = None
    /\ fund_nav_cache = EmptyDict
    /\ index_history_cache = EmptyDict
    /\ IdxIdle
    /\ portfolio = [found |-> FALSE, funds |-> <<>>]
    /\ indices_data = None
    /\ provider \in {[nav_now |-> EmptyDict, nav_rows |-> rows, index_rows |-> EmptyDict] :
                        rows \in [PfCodes -> RiskAnswers]}
    /\ fund_i = 0
    /\ results = <<>>
    /\ total_invested = Zero
    /\ portfolio_market_value = Zero
    /\ total_today_estimated_profit = Zero
    /\ has_today_estimate = FALSE
    /\ ret = None
    /\ CallIdle
    /\ BillIdle
    /\ SigIdle
    /\ RecIdle
    /\ PctIdle
    /\ DdIdle
    /\ portfolio_data \in RiskPortfolios
    /\ risk_days \in RiskDays
    /\ risk_i = 0
    /\ risk_results = <<>>
    /\ total_drawdown = Zero
    /\ total_volatility = Zero
    /\ valid_count = 0
    /\ max_drawdown = Zero
    /\ max_drawdown_fund = None
    /\ risk_report = None
    /\ AllIdle

SpecRisk == InitRisk /\ [][RiskNext]_vars

\* the analyses with a figure under a key
WithFigure(fs, key) ==
    SelectSeq(fs, LAMBDA f : key \in DOMAIN f /\ f[key] # None)

\* the absolute values of a figure
AbsFigures(fs, key) == [k \in 1..Len(fs) |-> RAbs(fs[k][key])]

\* the figures as they are
Figures(fs, key) == [k \in 1..Len(fs) |-> fs[k][key]]

\* the mean of some figures, to two decimals
MeanOf(figures) == Round(RDiv(RSum(figures), FromInt(Len(figures))), 2)

\* the NAV points analyze_fund_risk has of a fund
PointsOf(code) ==
    IF provider.nav_rows[code].raised THEN 0
    ELSE Len(NavWindow(provider.nav_rows[code].rows, risk_days + 30))

\* analyze_portfolio_risk returned a summary
RiskSummarised == pc = "risk_done" /\ "summary" \in DOMAIN risk_report

\* C25: avg_drawdown is the mean of |max_drawdown| over the funds with a
\* drawdown figure, avg_volatility the mean of volatility over the funds with
\* a volatility figure (both to two decimals), max_drawdown_fund a fund with
\* the largest |max_drawdown|, and a fund with fewer NAV points than half the
\* window reports insufficient data and has no figure
C25_RiskAggregation ==
    RiskSummarised =>
        LET fs == risk_report.funds
            summary == risk_report.summary
            drawn == WithFigure(fs, "max_drawdown")
            volatile == WithFigure(fs, "volatility")
        IN  /\ \A i \in 1..Len(fs) :
                   PointsOf(fs[i].code) < risk_days \div 2 =>
                       /\ "error" \in DOMAIN fs[i]
                       /\ "max_drawdown" \notin DOMAIN fs[i]
                       /\ "volatility" \notin DOMAIN fs[i]
            /\ drawn # <<>> =>
                   /\ "avg_drawdown" \in DOMAIN summary
                   /\ summary.avg_drawdown = MeanOf(AbsFigures(drawn, "max_drawdown"))
                   /\ "max_drawdown_fund" \in DOMAIN summary
                   /\ \E i \in 1..Len(drawn) :
                          /\ drawn[i].name = summary.max_drawdown_fund
                          /\ \A j \in 1..Len(drawn) :
                                 RLeq(RAbs(drawn[j].max_drawdown),
                                      RAbs(drawn[i].max_drawdown))
            /\ volatile # <<>> =>
                   /\ "avg_volatility" \in DOMAIN summary
                   /\ summary.avg_volatility = MeanOf(Figures(volatile, "volatility"))

\* ------------------------------------------------------- all recommendations
\* generate_contextual_recommendation as one call: what it returns, or that
\* it raised
generate_contextual_recommendation(index_code, index_name, td, vd, pd, sd) ==
    LET table == DecisionTable(TrendStrength(NetScore(td)),
                               ValuationLevel(ValPercentile(vd)),
                               PositionLevel(PositionWeight(pd)))
        d == SentimentCorrection(RsiCorrection(table, RsiOf(td)), sd)
        risk_estimate == estimate_max_drawdown_risk(Get(td, "price", Zero),
                                                    Get(td, "mas", EmptyDict),
                                                    ValPercentile(vd))
    IN  IF risk_estimate.raised THEN [raised |-> TRUE]
        ELSE [raised |-> FALSE,
              ret |-> [index_code |-> index_code, index_name |-> index_name,
                       action |-> d.action, action_cn |-> d.action_cn,
                       confidence |-> d.confidence, context |-> d.context,
                       reasoning |-> d.reasoning, risk_warning |-> d.risk_warnings,
                       position_advice |-> d.position_advice,
                       metrics |-> [estimated_drawdown |-> risk_estimate.estimated_drawdown,
                                    risk_level |-> risk_estimate.risk_level]]]

\* a fund tracking no index of the configuration, named after the CSI 300
OtherCode == "000003"

\* config['fund_index_mapping']
ConfigMapping == (FundCode :> AShareMap) @@ (QdiiCode :> UsMap)

\* lines 1893-1899: the first of the fields that is there and not zero
HeldAmount(fund) ==
    LET net == Get(fund, "net_invested", 0)
        value == Get(fund, "market_value", 0)
        invested == Get(fund, "total_invested", 0)
    IN  IF net # 0 THEN net
        ELSE IF value # 0 THEN value
        ELSE IF invested # 0 THEN invested
        ELSE Get(fund, "amount", 0)

\* where an index code is among the items of the holdings, or 0
ItemOf(index_holdings, index_code) ==
    IF \E k \in 1..Len(index_holdings) : index_holdings[k].index_code = index_code
    THEN CHOOSE k \in 1..Len(index_holdings) : index_holdings[k].index_code = index_code
    ELSE 0

\* lines 1911-1922: a fund is added to the holding of its index
AddHolding(index_holdings, index_code, index_name, fund, net_invested) ==
    LET k == ItemOf(index_holdings, index_code)
        held == [code |-> fund.code, name |-> fund.name, amount |-> net_invested]
    IN  IF k = 0
        THEN Append(index_holdings,
                    [index_code |-> index_code, name |-> index_name,
                     amount |-> net_invested, funds |-> <<held>>])
        ELSE [index_holdings EXCEPT ![k].amount = @ + net_invested,
                                    ![k].funds = Append(@, held)]

\* lines 1886-1922: the loop over the funds
RECURSIVE HoldingsOf(_, _, _)
HoldingsOf(funds, mapping, index_holdings) ==
    IF funds = <<>> THEN index_holdings
    ELSE LET fund == Head(funds)
             net_invested == HeldAmount(fund)
             mapped == net_invested > 0 /\ fund.code \in DOMAIN mapping
                       /\ mapping[fund.code].index_code # ""
         IN  HoldingsOf(Tail(funds), mapping,
                        IF mapped
                        THEN AddHolding(index_holdings, mapping[fund.code].index_code,
                                        mapping[fund.code].index_name, fund, net_invested)
                        ELSE index_holdings)

\* get_holding_indices: the dict in the order of its insertions; the funds of
\* a raw portfolio are the values of its dict in the order of the file
get_holding_indices(pd, mapping) ==
    IF pd = EmptyDict \/ "funds" \notin DOMAIN pd THEN <<>>
    ELSE HoldingsOf(pd.funds, mapping, <<>>)

\* summary.get('net_invested') or summary.get('total_invested') or 0
TotalInvested(pd) ==
    LET summary == Get(pd, "summary", EmptyDict)
    IN  IF Get(summary, "net_invested", 0) # 0 THEN summary.net_invested
        ELSE Get(summary, "total_invested", 0)

\* lines 2004-2009 and 1533-1539: the position of an amount in a total
PositionOf(amount, total, related_funds) ==
    [weight |-> IF total > 0 THEN Round(Rat(amount * 100, total), 1) ELSE Zero,
     amount |-> amount, related_funds |-> related_funds]

\* whether a keyword of the index is in the name of the fund
NamedAfter(fund_name, index_code) ==
    fund_name = "hs300 link" /\ index_code = AShareMap.index_code

\* lines 1510-1531: the funds related to an index
RelatedFunds(funds, index_code, mapping) ==
    SelectSeq(funds,
              LAMBDA fund :
                  \/ fund.code \in DOMAIN mapping
                     /\ mapping[fund.code].index_code = index_code
                  \/ NamedAfter(fund.name, index_code))

\* fund.get('net_invested', 0) or fund.get('amount', 0)
RelatedAmount(fund) ==
    IF Get(fund, "net_invested", 0) # 0 THEN fund.net_invested
    ELSE Get(fund, "amount", 0)

\* calculate_position_weight(portfolio_data, index_code, fund_index_mapping)
calculate_position_weight(pd, index_code, mapping) ==
    IF pd = EmptyDict \/ "funds" \notin DOMAIN pd \/ TotalInvested(pd) <= 0
    THEN [weight |-> Zero, amount |-> 0, related_funds |-> <<>>]
    ELSE LET related == RelatedFunds(pd.funds, index_code, mapping)
             related_funds == [k \in 1..Len(related) |->
                                  [code |-> related[k].code, name |-> related[k].name,
                                   amount |-> RelatedAmount(related[k])]]
             related_amount == SeqSum([k \in 1..Len(related) |-> RelatedAmount(related[k])])
         IN  PositionOf(related_amount, TotalInvested(pd), related_funds)

\* line 2024: the key of the sort
SortKey(x) == Get(x, "position_weight", Zero)

\* x put behind the last element of s whose key is not below its own
InsertByKey(s, x) ==
    LET below == {k \in 1..Len(s) : RLt(SortKey(s[k]), SortKey(x))}
        at == IF below = {} THEN Len(s) + 1
              ELSE CHOOSE k \in below : \A j \in below : k <= j
    IN  SubSeq(s, 1, at - 1) \o <<x>> \o SubSeq(s, at, Len(s))

\* list.sort(key=..., reverse=True): descending and stable
RECURSIVE SortedByKey(_)
SortedByKey(s) ==
    IF s = <<>> THEN <<>>
    ELSE InsertByKey(SortedByKey(SubSeq(s, 1, Len(s) - 1)), s[Len(s)])

\* lines 1953-1956: the trend of an index, when it has one without an error
TrendOf(trends, index_code) ==
    LET found == {k \in 1..Len(trends) :
                      trends[k].code = index_code /\ "error" \notin DOMAIN trends[k]}
    IN  IF found = {} THEN None
        ELSE trends[CHOOSE k \in found : \A j \in found : j <= k]

AllFrame == UNCHANGED <<fund_data, current_nav, nav_history, navLocals, result,
                        cacheVars, idxVars, pfVars, callVars, billVars, sigVars,
                        recVars, pctVars, riskVars, trend_list>>

\* lines 1947-1964: the holdings are taken from the portfolio
AllStart ==
    /\ pc = "all"
    /\ holding_indices' = get_holding_indices(portfolio_data, ConfigMapping)
    /\ pc' = IF holding_indices' = <<>> THEN "all_tracked" ELSE "all_held"
    /\ UNCHANGED <<rec_i, held_positions, recommendations>>
    /\ AllFrame

\* lines 1967-1982: without holdings, one recommendation for every trend
AllTracked ==
    /\ pc = "all_tracked"
    /\ rec_i < Len(trend_list)
    /\ rec_i' = rec_i + 1
    /\ LET trend == trend_list[rec_i + 1]
           position == calculate_position_weight(portfolio_data, trend.code,
                                                 ConfigMapping)
           rec == generate_contextual_recommendation(trend.code, trend.name, trend,
                                                     None, position, None)
       IN  IF "error" \in DOMAIN trend
           THEN UNCHANGED <<pc, held_positions, recommendations>>
           ELSE IF rec.raised
           THEN /\ pc' = "raised"
                /\ UNCHANGED <<held_positions, recommendations>>
           ELSE /\ recommendations' = Append(recommendations, rec.ret)
                /\ held_positions' = (trend.code :> position) @@ held_positions
                /\ UNCHANGED pc
    /\ UNCHANGED holding_indices
    /\ AllFrame

\* line 1983
AllTrackedReturn ==
    /\ pc = "all_tracked"
    /\ rec_i = Len(trend_list)
    /\ pc' = "all_done"
    /\ UNCHANGED <<holding_indices, rec_i, held_positions, recommendations>>
    /\ AllFrame

\* lines 1989-2021: one recommendation for every index that is held
AllHeld ==
    /\ pc = "all_held"
    /\ rec_i < Len(holding_indices)
    /\ rec_i' = rec_i + 1
    /\ LET holding_info == holding_indices[rec_i + 1]
           index_code == holding_info.index_code
           found == TrendOf(trend_list, index_code)
           trend == IF found = None THEN NoTrend ELSE found
           position == PositionOf(holding_info.amount, TotalInvested(portfolio_data),
                                  holding_info.funds)
           rec == generate_contextual_recommendation(index_code, holding_info.name,
                                                     trend, None, position, None)
       IN  IF rec.raised
           THEN /\ pc' = "raised"
                /\ UNCHANGED <<held_positions, recommendations>>
           ELSE /\ recommendations' = Append(recommendations, rec.ret)
                /\ held_positions' = (index_code :> position) @@ held_positions
                /\ UNCHANGED pc
    /\ UNCHANGED holding_indices
    /\ AllFrame

\* lines 2024-2026: the sort and the return
AllSort ==
    /\ pc = "all_held"
    /\ rec_i = Len(holding_indices)
    /\ recommendations' = SortedByKey(recommendations)
    /\ pc' = "all_done"
    /\ UNCHANGED <<holding_indices, rec_i, held_positions>>
    /\ AllFrame

AllNext == AllStart \/ AllTracked \/ AllTrackedReturn \/ AllHeld \/ AllSort

\* the funds of portfolio.json: code, name and net_invested
RawFunds ==
    {[code |-> c.code, name |-> c.name, net_invested |-> a] :
        c \in {[code |-> FundCode, name |-> "fund A"],
               [code |-> QdiiCode, name |-> "fund B"],
               [code |-> OtherCode, name |-> "hs300 link"]},
        a \in {1000, 2000}}

\* the funds of a valuation result: total_invested and market_value, at a
\* loss, at a profit, and level
ValuedFunds ==
    {[code |-> c.code, name |-> c.name, total_invested |-> v[1], market_value |-> v[2]] :
        c \in {[code |-> FundCode, name |-> "fund A"],
               [code |-> QdiiCode, name |-> "fund B"],
               [code |-> OtherCode, name |-> "hs300 link"]},
        v \in {<<1000, 900>>, <<1000, 1100>>, <<2000, 2000>>}}

FundLists(S) == UNION {[1..n -> S] : n \in 0..MaxFunds}

SumOf(funds, key) == SeqSum([k \in 1..Len(funds) |-> funds[k][key]])

\* portfolio.json: its summary sums the funds (portfolio.py:318-326)
RawPortfolios ==
    {[funds |-> fs,
      summary |-> [total_invested |-> SumOf(fs, "net_invested"),
                   net_invested |-> SumOf(fs, "net_invested"),
                   fund_count |-> Len(fs)]] : fs \in FundLists(RawFunds)}

\* calculate_portfolio_valuation's result: the funds by descending market
\* value, the summary with their sums (valuation.py:647-665)
ValuedPortfolios ==
    {[funds |-> fs,
      summary |-> [total_invested |-> SumOf(fs, "total_invested"),
                   total_market_value |-> SumOf(fs, "market_value"),
                   fund_count |-> Len(fs)]] :
        fs \in {l \in FundLists(ValuedFunds) :
                   \A k \in 1..(Len(l) - 1) : l[k].market_value >= l[k + 1].market_value}}

\* an entry of analyze_all_indices for an index
TrendEntry(m, snapshot) == [code |-> m.index_code, name |-> m.index_name] @@ snapshot

\* trend_data: nothing, the CSI 300 strong and overbought, both indices, and
\* the CSI 300 failed
TrendLists ==
    LET a == TrendEntry(AShareMap, Snapshot(FromInt(110), [ma20 |-> FromInt(100),
                                                          ma60 |-> None],
                                            3, FromInt(80)))
        u == TrendEntry(UsMap, Snapshot(FromInt(110), [ma20 |-> None, ma60 |-> None],
                                        -1, None))
        failed == [code |-> AShareMap.index_code, name |-> AShareMap.index_name,
                   error |-> "no data"]
    IN  {<<>>, <<a>>, <<a, u>>, <<failed, u>>}

InitAll ==
    /\ pc = "all"
    /\ RestIdle
    /\ SigIdle
    /\ RecIdle
    /\ PctIdle
    /\ DdIdle
    /\ portfolio_data \in {EmptyDict} \cup RawPortfolios \cup ValuedPortfolios
    /\ risk_days = 0
    /\ risk_i = 0
    /\ risk_results = <<>>
    /\ total_drawdown = Zero
    /\ total_volatility = Zero
    /\ valid_count = 0
    /\ max_drawdown = Zero
    /\ max_drawdown_fund = None
    /\ risk_report = None
    /\ trend_list \in TrendLists
    /\ holding_indices = <<>>
    /\ rec_i = 0
    /\ held_positions = EmptyDict
    /\ recommendations = <<>>

SpecAll == InitAll /\ [][AllNext]_vars

\* generate_all_recommendations returned for a portfolio that holds an index
HeldDone == pc = "all_done" /\ holding_indices # <<>>

\* the weight of the position passed for a recommendation
WeightOf(rec) == held_positions[rec.index_code].weight

\* C26: for a portfolio that holds a mapped index, of any two returned
\* recommendations the earlier one has a position weight at least the later one's
C26_SortedByWeight ==
    HeldDone =>
        \A i, j \in 1..Len(recommendations) :
            i < j => RGeq(WeightOf(recommendations[i]), WeightOf(recommendations[j]))

\* C30: for a portfolio that holds a mapped index, every weight lies in
\* [0, 100] and the weights sum to at most 100
C30_WeightsAreShares ==
    HeldDone =>
        /\ \A c \in DOMAIN held_positions :
               /\ RGeq(held_positions[c].weight, Zero)
               /\ RLeq(held_positions[c].weight, FromInt(100))
        /\ RLeq(RSum([k \in 1..Len(recommendations) |-> WeightOf(recommendations[k])]),
                FromInt(100))

====
